---- MODULE Spec2Model ----
(***************************************************************************)
(* bearing.js: the numerical core (3x3 symmetric eigendecomposition,       *)
(* directional statistics, kernel-density contouring).                     *)
(*                                                                         *)
(* Numbers.  The program computes in IEEE doubles.  Here a number is an    *)
(* integer count of thousandths (ONE is 1.0), every product and quotient   *)
(* is rounded to the nearest thousandth, and an angle in radians is an     *)
(* integer count of millionths.  A threshold of the source that is far     *)
(* below one thousandth (1e-10, 1e-14, 1e-30, 1e-8) is the smallest        *)
(* positive step of this arithmetic, so "x < 1e-10" reads "x < 1".         *)
(***************************************************************************)
EXTENDS Integers, Sequences, FiniteSets, TLC

VARIABLES
    pc,      \* "ready": the arguments are chosen; "done": the call returned
    input,   \* the arguments of the call
    output,  \* [fn |-> the function called, val |-> what it returned]
    nets,    \* the Stereonet instances constructed so far, oldest first
    nextClipId   \* the module-level counter of stereonet.js

vars == <<pc, input, output, nets, nextClipId>>

\* No Stereonet has been constructed
NoNets == nets = << >> /\ nextClipId = 0

None == [fn |-> "none"]

-----------------------------------------------------------------------------
(* Fixed-point arithmetic *)

ONE == 10 * 10 * 10
MICRO == ONE * ONE

Abs(x) == IF x < 0 THEN -x ELSE x
Max2(a, b) == IF a >= b THEN a ELSE b
Min2(a, b) == IF a <= b THEN a ELSE b

\* x / d rounded to the nearest integer (d > 0)
Round(x, d) == (x + d \div 2) \div d

\* a * b of two numbers in thousandths, rounded once (the whole thousands of a
\* are multiplied apart, so that the product stays below 2^31)
Mul(a, b) == (a \div ONE) * b + Round((a % ONE) * b, ONE)

\* a / b of two numbers in thousandths, b # 0
Div(a, b) == IF b > 0 THEN Round(a * ONE, b) ELSE Round(-a * ONE, -b)

\* a[1]*b[1] + a[2]*b[2] + a[3]*b[3], rounded once
Dot3(a, b) ==
    (a[1] \div ONE) * b[1] + (a[2] \div ONE) * b[2] + (a[3] \div ONE) * b[3]
    + Round((a[1] % ONE) * b[1] + (a[2] % ONE) * b[2] + (a[3] % ONE) * b[3], ONE)

RECURSIVE ISqrtIter(_, _, _)
ISqrtIter(x, lo, hi) ==
    IF lo >= hi THEN lo
    ELSE LET mid == (lo + hi + 1) \div 2
         IN  IF mid * mid <= x THEN ISqrtIter(x, mid, hi)
                               ELSE ISqrtIter(x, lo, mid - 1)

\* floor of the square root of a natural number below 2^31
ISqrt(x) == ISqrtIter(x, 0, 46340)

\* Math.sqrt of a number in thousandths (below 2 * 10^8), to the nearest
\* thousandth: the root of 1000 x, found as 10 r + d with r = floor(sqrt(10 x))
Sqrt(x) ==
    LET r   == ISqrt(x * 10)
        rem == 100 * (x * 10 - r * r)
        d   == CHOOSE k \in 0..9 :
                   /\ 20 * r * k + k * k <= rem
                   /\ k = 9 \/ 20 * r * (k + 1) + (k + 1) * (k + 1) > rem
        f   == 10 * r + d
    IN  IF rem - (20 * r * d + d * d) > f THEN f + 1 ELSE f

-----------------------------------------------------------------------------
(* Math.cos, Math.acos, Math.exp *)

PI == 3141593          \* Math.PI, in millionths of a radian
HALF_PI == PI \div 2

\* (a * b) / 10^6 for 0 <= a, b <= 4 * 10^6, within one millionth
MulMicro(a, b) ==
    LET ah == a \div ONE   al == a % ONE
        bh == b \div ONE   bl == b % ONE
    IN  ah * bh + (ah * bl + al * bh) \div ONE + (al * bl) \div MICRO

\* cos(x) in millionths for 0 <= x <= pi/2 (x in millionths of a radian):
\* 1 - y/2 (1 - y/12 (1 - y/30 (1 - y/56 (1 - y/90)))), y = x^2
CosSeries(x) ==
    LET y  == MulMicro(x, x)
        h5 == MICRO - y \div 90
        h4 == MICRO - MulMicro(y \div 56, h5)
        h3 == MICRO - MulMicro(y \div 30, h4)
        h2 == MICRO - MulMicro(y \div 12, h3)
    IN  MICRO - MulMicro(y \div 2, h2)

\* cos of an angle in [0, 2 pi], in millionths
CosMicro(a) ==
    LET b == IF a > PI THEN 2 * PI - a ELSE a
    IN  IF b <= HALF_PI THEN CosSeries(b) ELSE -CosSeries(PI - b)

\* Math.cos: angle in millionths of a radian, result in thousandths
Cos(a) == Round(CosMicro(a), ONE)

RECURSIVE AcosIter(_, _, _)
AcosIter(r, lo, hi) ==
    IF lo >= hi THEN lo
    ELSE LET mid == (lo + hi) \div 2
         IN  IF CosMicro(mid) <= r THEN AcosIter(r, lo, mid)
                                   ELSE AcosIter(r, mid + 1, hi)

\* Math.acos: argument in thousandths within [-1, 1], result in millionths
\* of a radian (the least angle whose cosine does not exceed the argument)
Acos(r) ==
    IF r >= ONE THEN 0
    ELSE IF r <= -ONE THEN PI
    ELSE AcosIter(r * ONE, 0, PI)

\* exp(-f) in millionths for 0 <= f <= 10^6 (f in millionths)
ExpSeries(f) ==
    LET h8 == MICRO - f \div 8
        h7 == MICRO - MulMicro(f \div 7, h8)
        h6 == MICRO - MulMicro(f \div 6, h7)
        h5 == MICRO - MulMicro(f \div 5, h6)
        h4 == MICRO - MulMicro(f \div 4, h5)
        h3 == MICRO - MulMicro(f \div 3, h4)
        h2 == MICRO - MulMicro(f \div 2, h3)
    IN  MICRO - MulMicro(f, h2)

INV_E == 367879        \* exp(-1), in millionths

RECURSIVE ExpNeg(_, _)
\* acc * exp(-x) in millionths, x >= 0 in thousandths
ExpNeg(x, acc) ==
    IF acc = 0 THEN 0
    ELSE IF x >= ONE THEN ExpNeg(x - ONE, MulMicro(acc, INV_E))
    ELSE MulMicro(acc, ExpSeries(x * ONE))

\* Math.exp of a number <= 0 in thousandths, to the nearest thousandth
Exp(x) == Round(ExpNeg(-x, MICRO), ONE)

\* The doubles that are no numbers, as integers outside the range of the model
Infinity == 2 * ONE * MICRO
NaN == -Infinity - 1
isNaN(x) == x = NaN

\* x is at most / above a threshold of the source that lies strictly between
\* 0 and one thousandth (x < 1e-10, x > 1e-10, ...)
Tiny(x) == x < 1
NotTiny(x) == x > 0

-----------------------------------------------------------------------------
(* core/vec3.js *)

length(v) == Sqrt(Dot3(v, v))

normalize(v) ==
    LET len == length(v)
    IN  IF len = 0 THEN <<0, 0, 0>>
        ELSE << Div(v[1], len), Div(v[2], len), Div(v[3], len) >>

scale(v, s) == << Mul(v[1], s), Mul(v[2], s), Mul(v[3], s) >>

\* negate leaving the third component as it is
negateXY(v) == << -v[1], -v[2], v[3] >>

negate(v) == << -v[1], -v[2], -v[3] >>

-----------------------------------------------------------------------------
(* core/eigen.js *)

TWO_PI_OVER_3 == (2 * PI) \div 3

cross3(a, b) ==
    << Mul(a[2], b[3]) - Mul(a[3], b[2]),
       Mul(a[3], b[1]) - Mul(a[1], b[3]),
       Mul(a[1], b[2]) - Mul(a[2], b[1]) >>

\* lines 115-116: v / len, or [1,0,0] when len < 1e-14
unitOrX(v, len) ==
    IF Tiny(len) THEN << ONE, 0, 0 >>
    ELSE << Div(v[1], len), Div(v[2], len), Div(v[3], len) >>

\* lines 110-113: the longest of the three cross products
longest(c01, c02, c12, l01, l02, l12) ==
    IF l01 >= l02 /\ l01 >= l12 THEN unitOrX(c01, Sqrt(l01))
    ELSE IF l02 >= l12 THEN unitOrX(c02, Sqrt(l02))
    ELSE unitOrX(c12, Sqrt(l12))

\* lines 106-108
nullVecOf(c01, c02, c12) ==
    longest(c01, c02, c12, Dot3(c01, c01), Dot3(c02, c02), Dot3(c12, c12))

\* lines 102-104
nullVecRows(r0, r1, r2) == nullVecOf(cross3(r0, r1), cross3(r0, r2), cross3(r1, r2))

\* lines 96-117: the null-space vector of (A - lam I), the longest of the
\* three cross products of its rows, normalised
nullVec(a00, a01, a02, a11, a12, a22, lam) ==
    nullVecRows(<< a00 - lam, a01, a02 >>,
                << a01, a11 - lam, a12 >>,
                << a02, a12, a22 - lam >>)

\* lines 129-137
perpendicular(v) ==
    LET ax  == Abs(v[1])
        ay  == Abs(v[2])
        az  == Abs(v[3])
        u   == IF ax <= ay /\ ax <= az THEN << 0, -v[3], v[2] >>
               ELSE IF ay <= ax /\ ay <= az THEN << -v[3], 0, v[1] >>
               ELSE << -v[2], v[1], 0 >>
        len == Sqrt(Dot3(u, u))
    IN  << Div(u[1], len), Div(u[2], len), Div(u[3], len) >>

\* A comparator sorting ascending
compareAsc(vi, vj) == vi - vj

\* The comparator of idx.sort, line 34: negative when i is to come before j
compare(vi, vj) == vj - vi

\* idx = [0,1,2] sorted by the comparator; Array.prototype.sort is stable, so
\* two indices that compare equal keep their order
sortIdx(vals) ==
    CHOOSE idx \in { p \in [1..3 -> 1..3] : \A i, j \in 1..3 : i # j => p[i] # p[j] } :
        \A k, l \in 1..3 :
            k < l => \/ compare(vals[idx[k]], vals[idx[l]]) < 0
                     \/ /\ compare(vals[idx[k]], vals[idx[l]]) = 0
                        /\ idx[k] < idx[l]

\* lines 30-39: the diagonal fast path
diagonalEigen(a00, a11, a22) ==
    LET vals == << a00, a11, a22 >>
        vecs == << <<ONE, 0, 0>>, <<0, ONE, 0>>, <<0, 0, ONE>> >>
        idx  == sortIdx(vals)
    IN  [ values  |-> << vals[idx[1]], vals[idx[2]], vals[idx[3]] >>,
          vectors |-> << vecs[idx[1]], vecs[idx[2]], vecs[idx[3]] >> ]

\* lines 76-88: v2 = v1 x v3 normalised, or the degenerate branch
middleVector(vals, v1, v3, c2, len2) ==
    IF NotTiny(len2)
    THEN [ values  |-> vals,
           vectors |-> << v1,
                          << Div(c2[1], len2), Div(c2[2], len2), Div(c2[3], len2) >>,
                          v3 >> ]
    ELSE [ values  |-> vals,
           vectors |-> << v1, perpendicular(v1), cross3(v1, perpendicular(v1)) >> ]

\* line 74
crossLength(vals, v1, v3, c2) == middleVector(vals, v1, v3, c2, Sqrt(Dot3(c2, c2)))

\* line 73
eigenVectors(vals, v1, v3) == crossLength(vals, v1, v3, cross3(v1, v3))

\* lines 69-70 and 85-88 with the pairs returned in ascending order
eigenPairsAscending(a00, a01, a02, a11, a12, a22, eig1, eig2, eig3) ==
    eigenVectors(<< eig3, eig2, eig1 >>,
                 nullVec(a00, a01, a02, a11, a12, a22, eig3),
                 nullVec(a00, a01, a02, a11, a12, a22, eig1))

\* lines 69-70
eigenPairs(a00, a01, a02, a11, a12, a22, eig1, eig2, eig3) ==
    eigenVectors(<< eig1, eig2, eig3 >>,
                 nullVec(a00, a01, a02, a11, a12, a22, eig1),
                 nullVec(a00, a01, a02, a11, a12, a22, eig3))

\* The middle eigenvalue taken from the third cosine, eig2c, instead of the trace
eig2Cosine(a00, a01, a02, a11, a12, a22, q, eig1, eig3, eig2c) ==
    eigenPairs(a00, a01, a02, a11, a12, a22, eig1, eig2c, eig3)

\* line 65: the middle eigenvalue from the trace
eig2Trace(a00, a01, a02, a11, a12, a22, q, eig1, eig3, eig2c) ==
    eigenPairs(a00, a01, a02, a11, a12, a22, eig1, 3 * q - eig1 - eig3, eig3)

\* lines 63-64 (the third cosine is not computed by the source)
eigenValues(a00, a01, a02, a11, a12, a22, q, p, phi) ==
    eig2Trace(a00, a01, a02, a11, a12, a22, q,
              q + Mul(2 * p, Cos(phi)),
              q + Mul(2 * p, Cos(phi + TWO_PI_OVER_3)),
              q + Mul(2 * p, Cos(phi + 2 * TWO_PI_OVER_3)))

\* lines 54-56: det(B) of the symmetric B
det3(b00, b01, b02, b11, b12, b22) ==
    Mul(b00, Mul(b11, b22) - Mul(b12, b12))
    - Mul(b01, Mul(b01, b22) - Mul(b12, b02))
    + Mul(b02, Mul(b01, b12) - Mul(b11, b02))

\* lines 59-60: phi = acos(clamp(detB / 2)) / 3
phiOf(detB) == Round(Acos(Max2(-ONE, Min2(ONE, Div(detB, 2 * ONE)))), 3)

\* lines 49-60: B = (A - qI) / p and phi
cardano(a00, a01, a02, a11, a12, a22, q, p) ==
    eigenValues(a00, a01, a02, a11, a12, a22, q, p,
                phiOf(det3(Div(a00 - q, p), Div(a01, p), Div(a02, p),
                           Div(a11 - q, p), Div(a12, p), Div(a22 - q, p))))

\* lines 42-46: p = sqrt(p2 / 6)
meanAndSpread(a00, a01, a02, a11, a12, a22, p1, q) ==
    cardano(a00, a01, a02, a11, a12, a22, q,
            Sqrt(Div(Dot3(<<a00 - q, a11 - q, a22 - q>>, <<a00 - q, a11 - q, a22 - q>>)
                     + 2 * p1, 6 * ONE)))

\* lines 28, 41-88: the general path
generalEigen(a00, a01, a02, a11, a12, a22) ==
    meanAndSpread(a00, a01, a02, a11, a12, a22,
                  Dot3(<<a01, a02, a12>>, <<a01, a02, a12>>),
                  Div(a00 + a11 + a22, 3 * ONE))

\* m: a symmetric 3x3 matrix, flat row-major (m[1..9] for the source's m[0..8])
symmetricEigen3(m) ==
    LET a00 == m[1]
        a01 == m[2]
        a02 == m[3]
        a11 == m[5]
        a12 == m[6]
        a22 == m[9]
    IN  IF a01 * a01 + a02 * a02 + a12 * a12 < 1
        THEN diagonalEigen(a00, a11, a22)
        ELSE generalEigen(a00, a01, a02, a11, a12, a22)

-----------------------------------------------------------------------------
(* Math.log, Math.pow(20, 1/k), and division with the doubles' special values *)

RECURSIVE LogIter(_, _, _)
\* the least y in lo..hi (thousandths) with exp(-y) <= t (t in millionths)
LogIter(t, lo, hi) ==
    IF lo >= hi THEN lo
    ELSE LET mid == (lo + hi) \div 2
         IN  IF ExpNeg(mid, MICRO) <= t THEN LogIter(t, lo, mid)
                                        ELSE LogIter(t, mid + 1, hi)

\* Math.log of a double in thousandths: NaN below 0, -Infinity at 0
Log(x) ==
    IF x = NaN \/ x < 0 THEN NaN
    ELSE IF x = 0 THEN -Infinity
    ELSE IF x = Infinity THEN Infinity
    ELSE IF x >= ONE THEN LogIter(Round(ONE * MICRO, x), 0, 14 * ONE)
    ELSE -LogIter(Round(MICRO, ONE) * x, 0, 14 * ONE)

\* a / b of two doubles: x/0 is an infinity, 0/0 and inf/inf are NaN
FDiv(a, b) ==
    IF a = NaN \/ b = NaN THEN NaN
    ELSE IF Abs(a) = Infinity
         THEN IF Abs(b) = Infinity THEN NaN
              ELSE IF b >= 0 THEN a ELSE -a
    ELSE IF Abs(b) = Infinity THEN 0
    ELSE IF b = 0
         THEN IF a = 0 THEN NaN ELSE IF a > 0 THEN Infinity ELSE -Infinity
    ELSE Div(a, b)

RECURSIVE PowInt(_, _)
\* x^k, or some number above 100 when x^k is above 100
PowInt(x, k) == IF k = 0 THEN ONE ELSE Mul(Min2(PowInt(x, k - 1), 100 * ONE), x)

RECURSIVE RootIter(_, _, _, _)
\* the greatest r in lo..hi with r^k <= x
RootIter(x, k, lo, hi) ==
    IF lo >= hi THEN lo
    ELSE LET mid == (lo + hi + 1) \div 2
         IN  IF PowInt(mid, k) <= x THEN RootIter(x, k, mid, hi)
                                    ELSE RootIter(x, k, lo, mid - 1)

\* Math.pow(20, 1 / k) for an integer k >= 1
Pow20(k) == RootIter(20 * ONE, k, ONE, 20 * ONE)

\* radians (millionths) to degrees (thousandths): a * (180 / Math.PI)
Degrees(a) ==
    LET t == a * 180
    IN  (t \div PI) * ONE + ((t % PI) * 500) \div (PI \div 2)

-----------------------------------------------------------------------------
(* statistics.js *)

RECURSIVE resultantFrom(_, _)
resultantFrom(dcos, k) ==
    IF k = 0 THEN <<0, 0, 0>>
    ELSE LET s == resultantFrom(dcos, k - 1)
             d == dcos[k]
         IN  << s[1] + d[1], s[2] + d[2], s[3] + d[3] >>

\* Sum of the vectors of dcos (not normalised)
resultant(dcos) == resultantFrom(dcos, Len(dcos))

meanVector(dcos) == normalize(resultant(dcos))

\* line 58 without the test of R
meanOfAlways(res, R) == scale(res, Div(ONE, Max2(R, 1)))

\* fisherStats, line 58: the mean direction
meanOf(res, R) == IF NotTiny(R) THEN scale(res, Div(ONE, R)) ELSE <<0, 0, -ONE>>

\* lines 61-64 without the guard of line 62
kappaOfUnguarded(n, R) ==
    IF n >= 3 THEN FDiv((n - 2) * ONE, n * ONE - R)
    ELSE FDiv((n - 1) * ONE, n * ONE - R)

\* fisherStats, lines 61-64: the concentration parameter
kappaOf(n, R) ==
    IF n * ONE > R
    THEN IF n >= 3 THEN Div((n - 2) * ONE, n * ONE - R)
                   ELSE Div((n - 1) * ONE, n * ONE - R)
    ELSE Infinity

\* lines 67-71 with the root of 20 taken over n instead of n - 1
alpha95OfN(n, R) ==
    IF n >= 2 /\ NotTiny(R) /\ NotTiny(n * ONE - R)
    THEN LET cosA == ONE - Mul(Div(n * ONE - R, R), Pow20(n) - ONE)
         IN  Degrees(Acos(Max2(-ONE, Min2(ONE, cosA))))
    ELSE 0

\* fisherStats, lines 67-71: the 95 % confidence cone
alpha95Of(n, R) ==
    IF n >= 2 /\ NotTiny(R) /\ NotTiny(n * ONE - R)
    THEN LET cosA == ONE - Mul(Div(n * ONE - R, R), Pow20(n - 1) - ONE)
         IN  Degrees(Acos(Max2(-ONE, Min2(ONE, cosA))))
    ELSE 0

\* lines 53-73 with the squared length of the resultant for R
fisherStatsNoRoot(dcos) ==
    LET n   == Len(dcos)
        res == resultant(dcos)
        R   == Dot3(res, res)
    IN  [ n       |-> n,
          R       |-> R,
          Rbar    |-> Div(R, n * ONE),
          mean    |-> meanOf(res, R),
          kappa   |-> kappaOf(n, R),
          alpha95 |-> alpha95Of(n, R) ]

\* lines 53-73
fisherStats(dcos) ==
    LET n   == Len(dcos)
        res == resultant(dcos)
        R   == length(res)
    IN  [ n       |-> n,
          R       |-> R,
          Rbar    |-> Div(R, n * ONE),
          mean    |-> meanOf(res, R),
          kappa   |-> kappaOf(n, R),
          alpha95 |-> alpha95Of(n, R) ]

RECURSIVE tensorSum(_, _, _, _)
\* the sum over the first k vectors of d[i] * d[j]
tensorSum(dcos, k, i, j) ==
    IF k = 0 THEN 0
    ELSE tensorSum(dcos, k - 1, i, j) + Mul(dcos[k][i], dcos[k][j])

\* T = (1/n) sum d (x) d, flat row-major
orientationTensor(dcos) ==
    LET n == Len(dcos)
    IN  [ k \in 1..9 |->
            Div(tensorSum(dcos, n, ((k - 1) \div 3) + 1, ((k - 1) % 3) + 1), n * ONE) ]

\* lines 142-144 with R taken from the middle eigenvalue
vollmerNoR(s1, s2, s3) == [ P |-> s1 - s2, G |-> 2 * (s2 - s3), R |-> 3 * s2 ]

\* principalAxes, lines 142-144
vollmer(s1, s2, s3) == [ P |-> s1 - s2, G |-> 2 * (s2 - s3), R |-> 3 * s3 ]

\* lines 123-151 with K set to 0 whenever ln(S2/S3) is 0
axesOfBranching(e, n) ==
    LET s1 == e.values[1]
        s2 == e.values[2]
        s3 == e.values[3]
        V  == vollmer(s1, s2, s3)
        d  == Log(FDiv(s2, s3))
    IN  [ eigenvalues  |-> e.values,
          eigenvectors |-> [ i \in 1..3 |-> IF e.vectors[i][3] > 0
                                            THEN negate(e.vectors[i])
                                            ELSE e.vectors[i] ],
          K      |-> IF d = 0 THEN 0 ELSE FDiv(Log(FDiv(s1, s2)), d),
          C      |-> Log(FDiv(s1, s3)),
          P      |-> V.P,
          G      |-> V.G,
          R      |-> V.R,
          kappa1 |-> n * (s2 - s1),
          kappa2 |-> n * (s3 - s1) ]

\* principalAxes, lines 123-151, on the decomposition e of the tensor
axesOf(e, n) ==
    LET s1 == e.values[1]
        s2 == e.values[2]
        s3 == e.values[3]
        V  == vollmer(s1, s2, s3)
    IN  [ eigenvalues  |-> e.values,
          eigenvectors |-> [ i \in 1..3 |-> IF e.vectors[i][3] > 0
                                            THEN negate(e.vectors[i])
                                            ELSE e.vectors[i] ],
          K      |-> FDiv(Log(FDiv(s1, s2)), Log(FDiv(s2, s3))),
          C      |-> Log(FDiv(s1, s3)),
          P      |-> V.P,
          G      |-> V.G,
          R      |-> V.R,
          kappa1 |-> n * (s2 - s1),
          kappa2 |-> n * (s3 - s1) ]

principalAxes(dcos) == axesOf(symmetricEigen3(orientationTensor(dcos)), Len(dcos))

-----------------------------------------------------------------------------
(* core/mat3.js, projections/equal-area.js, projections/equal-angle.js *)

\* What a projection's inverse returns outside its circle, and an absent option
null == << >>

transformVec3(m, v) ==
    << Dot3(<< m[1], m[2], m[3] >>, v),
       Dot3(<< m[4], m[5], m[6] >>, v),
       Dot3(<< m[7], m[8], m[9] >>, v) >>

\* equal-area.js inverse, lines 26-28, for r2 <= 2
equalAreaPoint(px, py, r2, s) == << Mul(px, s), Mul(py, s), -(ONE - Round(r2, 2)) >>

equalAreaDisk(px, py, r2) ==
    IF r2 > 2 * ONE THEN null
    ELSE equalAreaPoint(px, py, r2, Sqrt(ONE - Round(r2, 4)))

equalAreaInverse(px, py) == equalAreaDisk(px, py, Round(px * px + py * py, ONE))

equalAngleDisk(px, py, r2) ==
    IF r2 > ONE THEN null
    ELSE << Div(2 * px, ONE + r2), Div(2 * py, ONE + r2), Div(-(ONE - r2), ONE + r2) >>

equalAngleInverse(px, py) == equalAngleDisk(px, py, Round(px * px + py * py, ONE))

-----------------------------------------------------------------------------
(* contouring.js *)

DEG == PI \div 180     \* one degree, in millionths of a radian

SNAP == 1              \* 1e-8 is below the resolution: the smallest difference

\* Math.SQRT2, or 1 for the equal-angle projection (line 44)
projROf(projection) == IF projection = "equal-angle" THEN ONE ELSE Sqrt(2 * ONE)

inverseFn(projection, px, py) ==
    IF projection = "equal-angle" THEN equalAngleInverse(px, py)
    ELSE equalAreaInverse(px, py)

\* lines 39-41: sigma in thousandths of a degree, kappa = 1 / (1 - cos sigma);
\* the option is null or holds one number
sigmaOf(sigma, n) == IF sigma # null THEN sigma[1] ELSE Div(90 * ONE, Sqrt(n * ONE))

kappaOfSigma(sigma) == Div(ONE, ONE - Cos((sigma * DEG) \div ONE))

RECURSIVE densitySum(_, _, _, _)
\* lines 66-71: the kernel summed over data[1..k]
densitySum(d, data, kappa, k) ==
    IF k = 0 THEN 0
    ELSE densitySum(d, data, kappa, k - 1) + Exp(Mul(kappa, Dot3(d, data[k]) - ONE))

\* lines 63-74 with a node that has no inverse projection holding 0
densityAtZero(d, c) ==
    IF d = null THEN 0
    ELSE Div(Mul(c.kappa, densitySum(d, c.data, c.kappa, c.n)), c.n * ONE)

\* lines 63-74
densityAt(d, c) ==
    IF d = null THEN NaN
    ELSE Div(Mul(c.kappa, densitySum(d, c.data, c.kappa, c.n)), c.n * ONE)

\* lines 58-74 with every node outside the disk holding 0 instead of NaN
gridValueZero(px, py, c) ==
    IF Round(px * px + py * py, ONE) > Round(Mul(c.projR, c.projR) * 102, 100) THEN 0
    ELSE IF inverseFn(c.projection, px, py) = null THEN 0
    ELSE densityAt(inverseFn(c.projection, px, py), c)

\* lines 58-74: the value of the grid node at [px, py]
gridValue(px, py, c) ==
    IF Round(px * px + py * py, ONE) > Round(Mul(c.projR, c.projR) * 102, 100) THEN NaN
    ELSE densityAt(inverseFn(c.projection, px, py), c)

RECURSIVE gridRowFrom(_, _, _)
\* lines 55-75: the first i nodes of row j
gridRowFrom(i, j, c) ==
    IF i = 0 THEN << >>
    ELSE Append(gridRowFrom(i - 1, j, c),
                gridValue(-c.projR + (i - 1) * c.step, c.projR - j * c.step, c))

RECURSIVE gridFrom(_, _)
\* lines 50-76: the first j rows of the grid (node j * gridSize + i is entry
\* j * gridSize + i + 1)
gridFrom(j, c) ==
    IF j = 0 THEN << >>
    ELSE gridFrom(j - 1, c) \o gridRowFrom(c.gridSize, j - 1, c)

\* line 122: the quotient is NaN or an infinity when va = vb, and so is the
\* result (pa and pb always differ)
lerp(va, vb, pa, pb, level) ==
    LET t == FDiv(level - va, vb - va)
    IN  IF t = NaN THEN NaN
        ELSE IF Abs(t) = Infinity
        THEN IF (t > 0) = (pb > pa) THEN Infinity ELSE -Infinity
        ELSE pa + Mul(t, pb - pa)

\* lines 130-135 with the label of case 14 left out
singleWithout14(code, T, B, L, R) ==
    CASE code = 1 -> << <<B, L>> >>
      [] code = 14 -> << >>
      [] code \in {2, 13} -> << <<R, B>> >>
      [] code \in {3, 12} -> << <<R, L>> >>
      [] code \in {4, 11} -> << <<T, R>> >>
      [] code \in {6, 9}  -> << <<T, B>> >>
      [] code \in {7, 8}  -> << <<T, L>> >>

\* lines 130-135: the twelve cases of one segment
single(code, T, B, L, R) ==
    CASE code \in {1, 14} -> << <<B, L>> >>
      [] code \in {2, 13} -> << <<R, B>> >>
      [] code \in {3, 12} -> << <<R, L>> >>
      [] code \in {4, 11} -> << <<T, R>> >>
      [] code \in {6, 9}  -> << <<T, B>> >>
      [] code \in {7, 8}  -> << <<T, L>> >>

\* lines 136-147 with the test of the centre turned round
saddleReversed(code, above, T, B, L, R) ==
    IF code = 5
    THEN IF ~above THEN << <<L, T>>, <<B, R>> >> ELSE << <<B, L>>, <<T, R>> >>
    ELSE IF ~above THEN << <<T, R>>, <<L, B>> >> ELSE << <<T, L>>, <<R, B>> >>

\* lines 136-147: the two saddles, above being ctr >= level
saddle(code, above, T, B, L, R) ==
    IF code = 5
    THEN IF above THEN << <<L, T>>, <<B, R>> >> ELSE << <<B, L>>, <<T, R>> >>
    ELSE IF above THEN << <<T, R>>, <<L, B>> >> ELSE << <<T, L>>, <<R, B>> >>

\* lines 107-147 with the right edge interpolated between the left corners
cellCaseRightAsLeft(vTL, vTR, vBL, vBR, x0, x1, y0, y1, level) ==
    LET code == (IF vTL >= level THEN 8 ELSE 0) + (IF vTR >= level THEN 4 ELSE 0)
                + (IF vBR >= level THEN 2 ELSE 0) + (IF vBL >= level THEN 1 ELSE 0)
        T == << lerp(vTL, vTR, x0, x1, level), y0 >>
        B == << lerp(vBL, vBR, x0, x1, level), y1 >>
        L == << x0, lerp(vTL, vBL, y0, y1, level) >>
        R == << x1, lerp(vTL, vBL, y0, y1, level) >>
    IN  IF code \in {0, 15} THEN << >>
        ELSE IF code \in {5, 10}
        THEN saddle(code, vTL + vTR + vBL + vBR >= 4 * level, T, B, L, R)
        ELSE single(code, T, B, L, R)

\* lines 107-147: the segments of one cell whose corners are all numbers.
\* Dividing by 4 is exact in doubles, so ctr >= level is decided on the sum.
cellCase(vTL, vTR, vBL, vBR, x0, x1, y0, y1, level) ==
    LET code == (IF vTL >= level THEN 8 ELSE 0) + (IF vTR >= level THEN 4 ELSE 0)
                + (IF vBR >= level THEN 2 ELSE 0) + (IF vBL >= level THEN 1 ELSE 0)
        T == << lerp(vTL, vTR, x0, x1, level), y0 >>
        B == << lerp(vBL, vBR, x0, x1, level), y1 >>
        L == << x0, lerp(vTL, vBL, y0, y1, level) >>
        R == << x1, lerp(vTR, vBR, y0, y1, level) >>
    IN  IF code \in {0, 15} THEN << >>
        ELSE IF code \in {5, 10}
        THEN saddle(code, vTL + vTR + vBL + vBR >= 4 * level, T, B, L, R)
        ELSE single(code, T, B, L, R)

\* lines 100-119: the cell whose top left node is column i of row j
cellSegments(grid, size, step, projR, level, i, j) ==
    IF \/ isNaN(grid[j * size + i + 1])
       \/ isNaN(grid[j * size + i + 2])
       \/ isNaN(grid[(j + 1) * size + i + 1])
       \/ isNaN(grid[(j + 1) * size + i + 2])
    THEN << >>
    ELSE cellCase(grid[j * size + i + 1], grid[j * size + i + 2],
                  grid[(j + 1) * size + i + 1], grid[(j + 1) * size + i + 2],
                  -projR + i * step, -projR + i * step + step,
                  projR - j * step, projR - j * step - step, level)

RECURSIVE rowSegmentsFrom(_, _, _, _, _, _, _)
\* lines 99-149: the segments of the first i cells of row j
rowSegmentsFrom(i, j, grid, size, step, projR, level) ==
    IF i = 0 THEN << >>
    ELSE rowSegmentsFrom(i - 1, j, grid, size, step, projR, level)
         \o cellSegments(grid, size, step, projR, level, i - 1, j)

RECURSIVE segmentsFrom(_, _, _, _, _, _)
\* lines 98-150: the segments of the first j rows of cells
segmentsFrom(j, grid, size, step, projR, level) ==
    IF j = 0 THEN << >>
    ELSE segmentsFrom(j - 1, grid, size, step, projR, level)
         \o rowSegmentsFrom(size - 1, j - 1, grid, size, step, projR, level)

marchingSquares(grid, size, step, projR, level) ==
    segmentsFrom(size - 1, grid, size, step, projR, level)

close(a, b) == Abs(a[1] - b[1]) < SNAP /\ Abs(a[2] - b[2]) < SNAP

\* The unused segments whose first end is close to the point p
touchingFirst(p, segments, used) ==
    { i \in 1..Len(segments) : i \notin used /\ close(p, segments[i][1]) }

\* The unused segments with an end close to the point p
touching(p, segments, used) ==
    { i \in 1..Len(segments) :
        i \notin used /\ (close(p, segments[i][1]) \/ close(p, segments[i][2])) }

least(S) == CHOOSE i \in S : \A k \in S : i <= k

\* lines 184-193 with the near end of the segment pushed
pushedNear(path, segments, i) ==
    IF close(path[Len(path)], segments[i][1]) THEN Append(path, segments[i][1])
    ELSE Append(path, segments[i][2])

\* One pass of the forward loop, lines 184-193, taking segment i
pushed(path, segments, i) ==
    IF close(path[Len(path)], segments[i][1]) THEN Append(path, segments[i][2])
    ELSE Append(path, segments[i][1])

RECURSIVE extendForward(_, _, _)
\* lines 181-194: the path and the used segments when nothing more fits the tail
extendForward(path, segments, used) ==
    IF touching(path[Len(path)], segments, used) = {}
    THEN [ path |-> path, used |-> used ]
    ELSE extendForward(pushed(path, segments, least(touching(path[Len(path)], segments, used))),
                       segments,
                       used \cup { least(touching(path[Len(path)], segments, used)) })

\* One pass of the backward loop, lines 200-209, taking segment i
unshifted(path, segments, i) ==
    IF close(path[1], segments[i][2]) THEN << segments[i][1] >> \o path
    ELSE << segments[i][2] >> \o path

RECURSIVE extendBackward(_, _, _)
\* lines 197-210
extendBackward(path, segments, used) ==
    IF touching(path[1], segments, used) = {}
    THEN [ path |-> path, used |-> used ]
    ELSE extendBackward(unshifted(path, segments, least(touching(path[1], segments, used))),
                        segments,
                        used \cup { least(touching(path[1], segments, used)) })

\* lines 178-210: the path grown from segment s
grown(forward, segments) == extendBackward(forward.path, segments, forward.used)

pathFrom(s, segments, used) ==
    grown(extendForward(<< segments[s][1], segments[s][2] >>, segments, used \cup {s}),
          segments)

RECURSIVE assembleFrom(_, _, _, _)
\* lines 174-213: the loop over s
assembleFrom(s, segments, used, paths) ==
    IF s > Len(segments) THEN paths
    ELSE IF s \in used THEN assembleFrom(s + 1, segments, used, paths)
    ELSE assembleFrom(s + 1, segments,
                      pathFrom(s, segments, used).used,
                      Append(paths, pathFrom(s, segments, used).path))

assembleSegments(segments) ==
    IF Len(segments) = 0 THEN << >> ELSE assembleFrom(1, segments, {}, << >>)

\* lines 79-84
contoursOf(grid, c, levels) ==
    [ k \in 1..Len(levels) |->
        [ level |-> levels[k],
          paths |-> assembleSegments(
                        marchingSquares(grid, c.gridSize, c.step, c.projR, levels[k])) ] ]

\* lines 50-84, with the quantities of lines 39-47 in c
contoursIn(c, levels) == contoursOf(gridFrom(c.gridSize, c), c, levels)

\* line 47
rotated(rotation, dcos) ==
    IF rotation # null THEN [ k \in 1..Len(dcos) |-> transformVec3(rotation, dcos[k]) ]
    ELSE dcos

\* lines 39-51
context(dcos, options, projR) ==
    [ projection |-> options.projection,
      projR      |-> projR,
      gridSize   |-> options.gridSize,
      step       |-> Div(2 * projR, (options.gridSize - 1) * ONE),
      n          |-> Len(dcos),
      kappa      |-> kappaOfSigma(sigmaOf(options.sigma, Len(dcos))),
      data       |-> rotated(options.rotation, dcos) ]

\* lines 36-84 with the map of line 36 dropping the last level
computeContoursShort(dcos, options) ==
    IF Len(dcos) = 0
    THEN [ k \in 1..(Len(options.levels) - 1) |-> [ level |-> options.levels[k], paths |-> << >> ] ]
    ELSE contoursIn(context(dcos, options, projROf(options.projection)), options.levels)

computeContours(dcos, options) ==
    IF Len(dcos) = 0
    THEN [ k \in 1..Len(options.levels) |-> [ level |-> options.levels[k], paths |-> << >> ] ]
    ELSE contoursIn(context(dcos, options, projROf(options.projection)), options.levels)

-----------------------------------------------------------------------------
(* core/conversions.js, with the core/vec3.js operations it calls.  Here a     *)
(* direction cosine is an integer count of millionths, an attitude given by  *)
(* the caller is in whole degrees, and an attitude returned is in            *)
(* thousandths of a degree.                                                  *)

\* a * b / 10^6 of two signed numbers in millionths
MulSigned(a, b) ==
    IF (a < 0) = (b < 0) THEN MulMicro(Abs(a), Abs(b))
                         ELSE -MulMicro(Abs(a), Abs(b))

\* a / b in millionths, 0 <= a <= b <= 2 * 10^6, b > 0
DivMicro(a, b) ==
    ((a * ONE) \div b) * ONE + (((a * ONE) % b) * ONE) \div b

\* a / b of a signed a with |a| <= b
DivSigned(a, b) == IF a < 0 THEN -DivMicro(-a, b) ELSE DivMicro(a, b)

\* the next decimal digit of a square root: the greatest d with
\* (20 f + d) d <= 100 rem
nextDigit(f, rem) ==
    CHOOSE d \in 0..9 :
        /\ (20 * f + d) * d <= 100 * rem
        /\ d = 9 \/ (20 * f + d + 1) * (d + 1) > 100 * rem

RECURSIVE SqrtDigits(_, _, _)
\* f = floor(sqrt(X)) and rem = X - f * f carried on by k decimal digits
SqrtDigits(f, rem, k) ==
    IF k = 0 THEN f
    ELSE SqrtDigits(10 * f + nextDigit(f, rem),
                    100 * rem - (20 * f + nextDigit(f, rem)) * nextDigit(f, rem),
                    k - 1)

\* Math.sqrt of a number in millionths, 0 <= x <= 4 * 10^6, rounded down
SqrtMicro(x) == SqrtDigits(ISqrt(x), x - ISqrt(x) * ISqrt(x), 3)

\* Math.sin of an angle in [0, 2 pi], in millionths
SinMicro(a) ==
    IF a <= HALF_PI THEN CosMicro(HALF_PI - a) ELSE CosMicro(a - HALF_PI)

\* Math.acos of a number in millionths within [-1, 1]
AcosMicro(r) ==
    IF r >= MICRO THEN 0
    ELSE IF r <= -MICRO THEN PI
    ELSE AcosIter(r, 0, PI)

\* Math.asin of a number in millionths within [-1, 1]
AsinMicro(r) == HALF_PI - AcosMicro(r)

\* Math.atan2(y, x) for y >= 0 and x >= 0: the angle of the longer leg is
\* found from the shorter one
Atan2First(y, x, r) ==
    IF r = 0 THEN 0
    ELSE IF y <= x THEN AsinMicro(DivMicro(Min2(y, r), r))
    ELSE HALF_PI - AsinMicro(DivMicro(Min2(x, r), r))

\* Math.atan2(y, x), in millionths of a radian within [-pi, pi]
Atan2(y, x) ==
    LET first == Atan2First(Abs(y), Abs(x),
                            SqrtMicro(MulMicro(Abs(y), Abs(y)) + MulMicro(Abs(x), Abs(x))))
        upper == IF x < 0 THEN PI - first ELSE first
    IN  IF y < 0 THEN -upper ELSE upper

\* degrees * DEG: whole degrees to millionths of a radian
toRadians(d) == Round(d * PI, 180)

\* radians * INV_DEG: millionths of a radian to thousandths of a degree
toDegreesOf(n) ==
    (n \div PI) * ONE + Round(((n % PI) \div 10) * ONE, PI \div 10)

toDegrees(a) == IF a < 0 THEN -toDegreesOf((-a) * 180) ELSE toDegreesOf(a * 180)

cross(a, b) ==
    << MulSigned(a[2], b[3]) - MulSigned(a[3], b[2]),
       MulSigned(a[3], b[1]) - MulSigned(a[1], b[3]),
       MulSigned(a[1], b[2]) - MulSigned(a[2], b[1]) >>

\* core/vec3.js length of a vector in millionths; the squares of a short
\* vector are summed exactly, as their millionths would be lost
lengthMicro(v) ==
    IF \A i \in 1..3 : Abs(v[i]) <= 26000
    THEN ISqrt(v[1] * v[1] + v[2] * v[2] + v[3] * v[3])
    ELSE SqrtMicro(MulSigned(v[1], v[1]) + MulSigned(v[2], v[2]) + MulSigned(v[3], v[3]))

normalizeBy(v, len) ==
    IF len = 0 THEN << 0, 0, 0 >>
    ELSE << DivSigned(v[1], Max2(len, Abs(v[1]))),
            DivSigned(v[2], Max2(len, Abs(v[2]))),
            DivSigned(v[3], Max2(len, Abs(v[3]))) >>

planeToDcos(dd, dip) ==
    << -MulSigned(SinMicro(toRadians(dip)), SinMicro(toRadians(dd))),
       -MulSigned(SinMicro(toRadians(dip)), CosMicro(toRadians(dd))),
       -CosMicro(toRadians(dip)) >>

\* line 177: the antipode of a vector that points upward
lowerHemisphere(dcos) ==
    IF dcos[3] > 0 THEN << -dcos[1], -dcos[2], -dcos[3] >> ELSE dcos

\* lines 179-180: a negative azimuth is brought into [0, 360)
wrapped(deg) == IF deg < 0 THEN deg + 360 * ONE ELSE deg

\* lines 178-181 with the azimuth taken from the vector itself
planeOfUpward(v) ==
    << wrapped(toDegrees(Atan2(v[1], v[2]))),
       toDegrees(AcosMicro(Max2(-MICRO, Min2(MICRO, -v[3])))) >>

\* lines 178-181 on the lower-hemisphere vector
planeOf(v) ==
    << wrapped(toDegrees(Atan2(-v[1], -v[2]))),
       toDegrees(AcosMicro(Max2(-MICRO, Min2(MICRO, -v[3])))) >>

dcosToPlane(dcos) == planeOf(lowerHemisphere(dcos))

\* lines 205-208 on the lower-hemisphere vector
lineOf(v) ==
    << wrapped(toDegrees(Atan2(v[1], v[2]))),
       toDegrees(AsinMicro(Max2(-MICRO, Min2(MICRO, -v[3])))) >>

dcosToLine(dcos) == lineOf(lowerHemisphere(dcos))

\* lines 304-308 without the guard of line 306
intersectionUnguarded(c, len) == dcosToLine(normalizeBy(c, len))

\* lines 304-308 on the cross product of the two poles
intersectionOf(c, len) ==
    IF Tiny(len) THEN null ELSE dcosToLine(normalizeBy(c, len))

intersectionAlong(c) == intersectionOf(c, lengthMicro(c))

planeIntersectionLine(dd1, dip1, dd2, dip2) ==
    intersectionAlong(cross(planeToDcos(dd1, dip1), planeToDcos(dd2, dip2)))

-----------------------------------------------------------------------------
(* The arrays the operations read and write.  A heap is a sequence of cells,  *)
(* one per array, and an array is known by its place in the heap; a set of   *)
(* vectors is the cell of the places of its vectors.  An operation on a heap *)
(* returns the heap it leaves and the places of the arrays of its result.    *)

\* core/mat3.js, lines 66-67 and 71-73: a row divided by its length
unitRow(r) == << Div(r[1], length(r)), Div(r[2], length(r)), Div(r[3], length(r)) >>

\* lines 70-71: r1 less its component along r0
lessAlong(r1, r0, d) ==
    << r1[1] - Mul(d, r0[1]), r1[2] - Mul(d, r0[2]), r1[3] - Mul(d, r0[3]) >>

\* lines 76-86
rowsOf(r0, r1) ==
    << r0[1], r0[2], r0[3], r1[1], r1[2], r1[3],
       Mul(r0[2], r1[3]) - Mul(r0[3], r1[2]),
       Mul(r0[3], r1[1]) - Mul(r0[1], r1[3]),
       Mul(r0[1], r1[2]) - Mul(r0[2], r1[1]) >>

secondRow(r0, r1) == rowsOf(r0, unitRow(lessAlong(r1, r0, Dot3(r1, r0))))

orthonormalize(m) == secondRow(unitRow(<< m[1], m[2], m[3] >>), << m[4], m[5], m[6] >>)

\* the vectors of the set at place a
vectorsAt(h, a) == [ i \in 1..Len(h[a]) |-> h[h[a][i]] ]

\* a new array holding v, the only array of the result
fresh(h, v) == [ heap |-> Append(h, v), refs |-> { Len(h) + 1 } ]

\* statistics.js, lines 22-24, with the sum kept in the first vector of the set
resultantInPlace(h, dcos) ==
    [ heap |-> [ h EXCEPT ![h[dcos][1]] = resultant(vectorsAt(h, dcos)) ],
      refs |-> { h[dcos][1] } ]

\* statistics.js, lines 22-24: s is a new array, and the loop writes to s only
resultantIn(h, dcos) == fresh(h, resultant(vectorsAt(h, dcos)))

\* lines 55-58 and 73: res and mean are new arrays, the record returned holds mean
meanIn(r, dcos) ==
    [ heap |-> Append(r.heap, fisherStats(vectorsAt(r.heap, dcos)).mean),
      refs |-> { Len(r.heap) + 1 } ]

fisherStatsIn(h, dcos) == meanIn(resultantIn(h, dcos), dcos)

\* lines 90-97: T is a new array, and the loops write to T only
orientationTensorIn(h, dcos) == fresh(h, orientationTensor(vectorsAt(h, dcos)))

\* core/eigen.js, lines 31-38 and 69-88: values, the three vectors and the
\* array of the three are new (line 82 writes to v3, which nullVec made)
decomposedIn(h, e) ==
    [ heap |-> h \o << e.values, e.vectors[1], e.vectors[2], e.vectors[3],
                       << Len(h) + 2, Len(h) + 3, Len(h) + 4 >> >>,
      refs |-> (Len(h) + 1)..(Len(h) + 5) ]

symmetricEigen3In(h, m) == decomposedIn(h, symmetricEigen3(h[m]))

\* statistics.js, lines 127-131: an upward vector gives way, in the array of
\* the three, to a new one
flipAt(r, vecs, i) ==
    IF r.heap[r.heap[vecs][i]][3] > 0
    THEN [ heap |-> [ Append(r.heap, negate(r.heap[r.heap[vecs][i]]))
                          EXCEPT ![vecs][i] = Len(r.heap) + 1 ],
           refs |-> r.refs \cup { Len(r.heap) + 1 } ]
    ELSE r

flipped(r, vecs) == flipAt(flipAt(flipAt(r, vecs, 1), vecs, 2), vecs, 3)

\* lines 123-124: the tensor is a new array, decomposed into new arrays
axesIn(t) == flipped(symmetricEigen3In(t.heap, Len(t.heap)), Len(t.heap) + 5)

principalAxesIn(h, dcos) == axesIn(orientationTensorIn(h, dcos))

\* core/mat3.js, lines 61-86: the rows and the matrix returned are new arrays
orthonormalizeIn(h, m) == fresh(h, orthonormalize(h[m]))

\* contouring.js, lines 27-84: the rotated data, the grid, the segments and the
\* paths are new arrays; dcos, rotation and levels are only read
computeContoursIn(h, dcos, rotation, levels) ==
    fresh(h, computeContours(vectorsAt(h, dcos),
                             [ projection |-> "equal-area", rotation |-> h[rotation],
                               gridSize |-> 3, levels |-> h[levels], sigma |-> null ]))

-----------------------------------------------------------------------------
(* stereonet.js: the constructor and the list of items of a Stereonet.  An   *)
(* object is known by a number; a rotation is known by how it was made:      *)
(* <<"caller", k>> is the k-th matrix object of the caller, <<"center", t, p>>*)
(* the matrix rotationFromCenter(t, p) returns, <<"northPole", t, p, s>> the *)
(* matrix rotationFromNorthPole(t, p, s) returns, and null is <<>>.          *)

RECURSIVE decimal(_)
\* the decimal digits of a natural number, as `${n}` writes them
decimal(n) == IF n < 10 THEN << n >> ELSE Append(decimal(n \div 10), n % 10)

\* line 92 without the counter
clipIdShared(n) == << "bearing-clip-", decimal(0) >>

\* line 92
clipIdOf(n) == << "bearing-clip-", decimal(n) >>

rotationFromCenter(trend, plunge) == << "center", trend, plunge >>

rotationFromNorthPole(trend, plunge, spin) == << "northPole", trend, plunge, spin >>

(* The entries of the matrix rotationFromCenter returns, in millionths, with  *)
(* the operations of core/vec3.js and core/mat3.js it calls; trend and       *)
(* plunge are whole degrees                                                  *)

\* Math.sin and Math.cos of an angle in [-2 pi, 2 pi], in millionths
sinOf(a) == IF a < 0 THEN -SinMicro(-a) ELSE SinMicro(a)
cosOf(a) == CosMicro(Abs(a))

\* degrees * DEG of a signed number of whole degrees
radiansOf(d) == IF d < 0 THEN -toRadians(-d) ELSE toRadians(d)

\* core/conversions.js lineToDcos
lineToDcos(trend, plunge) ==
    << MulSigned(cosOf(radiansOf(plunge)), sinOf(radiansOf(trend))),
       MulSigned(cosOf(radiansOf(plunge)), cosOf(radiansOf(trend))),
       -sinOf(radiansOf(plunge)) >>

\* core/vec3.js dot
dot(a, b) == MulSigned(a[1], b[1]) + MulSigned(a[2], b[2]) + MulSigned(a[3], b[3])

\* core/vec3.js angle
angle(a, b) ==
    LET d == dot(normalizeBy(a, lengthMicro(a)), normalizeBy(b, lengthMicro(b)))
    IN  AcosMicro(Max2(-MICRO, Min2(MICRO, d)))

\* core/mat3.js identity
identity == << MICRO, 0, 0, 0, MICRO, 0, 0, 0, MICRO >>

\* the entries of core/mat3.js rotationFromAxisAngle, from c, s and t = 1 - c
rodrigues(kx, ky, kz, c, s, t) ==
    << c + MulSigned(MulSigned(kx, kx), t),
       MulSigned(MulSigned(kx, ky), t) - MulSigned(kz, s),
       MulSigned(MulSigned(kx, kz), t) + MulSigned(ky, s),
       MulSigned(MulSigned(ky, kx), t) + MulSigned(kz, s),
       c + MulSigned(MulSigned(ky, ky), t),
       MulSigned(MulSigned(ky, kz), t) - MulSigned(kx, s),
       MulSigned(MulSigned(kz, kx), t) - MulSigned(ky, s),
       MulSigned(MulSigned(kz, ky), t) + MulSigned(kx, s),
       c + MulSigned(MulSigned(kz, kz), t) >>

\* core/mat3.js rotationFromAxisAngle, theta in [0, pi]
rotationFromAxisAngle(axis, theta) ==
    rodrigues(axis[1], axis[2], axis[3], cosOf(theta), sinOf(theta), MICRO - cosOf(theta))

\* core/mat3.js transformVec3 on entries in millionths
transformed(m, v) ==
    << dot(<< m[1], m[2], m[3] >>, v),
       dot(<< m[4], m[5], m[6] >>, v),
       dot(<< m[7], m[8], m[9] >>, v) >>

\* lines 118-128 without the test of line 121
centerMatrixUnguarded(d, target, axis, len) ==
    rotationFromAxisAngle(normalizeBy(axis, len), angle(d, target))

\* lines 121-128: len < 1e-10 is len = 0 at a millionth
centerMatrix(d, target, axis, len) ==
    IF len < 1
    THEN IF dot(d, target) > 0
         THEN identity
         ELSE rotationFromAxisAngle(<< MICRO, 0, 0 >>, PI)
    ELSE rotationFromAxisAngle(normalizeBy(axis, len), angle(d, target))

\* lines 117-129: the matrix rotationFromCenter(trend, plunge) returns
rotationFromCenterAt(trend, plunge) ==
    LET d      == lineToDcos(trend, plunge)
        target == << 0, 0, -MICRO >>
        axis   == cross(d, target)
    IN  centerMatrix(d, target, axis, lengthMicro(axis))

\* northPole[2] || 0
spinOf(northPole) == IF Len(northPole) > 2 THEN northPole[3] ELSE 0

\* lines 84-88 with northPole tried before center
rotationNorthFirst(options) ==
    IF options.rotation # null THEN options.rotation
    ELSE IF options.northPole # null
    THEN rotationFromNorthPole(options.northPole[1], options.northPole[2],
                               spinOf(options.northPole))
    ELSE IF options.center # null
    THEN rotationFromCenter(options.center[1], options.center[2])
    ELSE null

\* lines 84-88
rotationOf(options) ==
    IF options.rotation # null THEN options.rotation
    ELSE IF options.center # null
    THEN rotationFromCenter(options.center[1], options.center[2])
    ELSE IF options.northPole # null
    THEN rotationFromNorthPole(options.northPole[1], options.northPole[2],
                               spinOf(options.northPole))
    ELSE null

\* lines 79-105: the fields of a new instance that the operations below use.
\* The options name no size, padding or projection, so these are the defaults
\* (render/style.js lines 68-69), in thousandths.  els holds the _el of every
\* item object made so far, by the number of the object.
constructed(options, n) ==
    [ rotation |-> rotationOf(options), items |-> << >>, clipId |-> clipIdOf(n),
      size |-> 500 * ONE, padding |-> 30 * ONE, projection |-> "equal-area",
      contourDcos |-> null, contourOptions |-> null, contourPaths |-> null,
      el |-> null, contourGroup |-> null, dataGroup |-> null, els |-> << >> ]

\* Array.prototype.indexOf by identity, counted from 1; 0 when absent
indexOf(items, id) ==
    IF \E i \in 1..Len(items) : items[i].id = id
    THEN CHOOSE i \in 1..Len(items) :
             /\ items[i].id = id
             /\ \A j \in 1..(i - 1) : items[j].id # id
    ELSE 0

\* items.splice(idx, 1) with idx counted from 1; splice(-1, 1), here idx = 0,
\* takes the last item away
splice(items, idx) ==
    IF idx = 0 THEN SubSeq(items, 1, Len(items) - 1)
    ELSE SubSeq(items, 1, idx - 1) \o SubSeq(items, idx + 1, Len(items))

\* lines 336-340 without the test of line 337
removedUnguarded(items, id) == splice(items, indexOf(items, id))

\* lines 336-340
removed(items, id) ==
    IF indexOf(items, id) >= 1 THEN splice(items, indexOf(items, id)) ELSE items

(* The methods of one instance, as what they make of its fields.  A field   *)
(* that holds an object of the caller or a result holds it in a tuple of    *)
(* one, so that an empty array is not null; a group of the DOM is the tuple *)
(* of one that holds the list of its children.  An element made for an item *)
(* is << tag, object, count >>, count being 1 for the first element made    *)
(* for that object.  The attributes written on the elements are left out.   *)

\* A quarter turn about the vertical axis, the caller's matrix
QuarterTurn == << 0, -ONE, 0, ONE, 0, 0, 0, 0, ONE >>

\* core/mat3.js multiply, entries in millionths
multiply(a, b) ==
    [ k \in 1..9 |->
        LET i == (k - 1) \div 3
            j == (k - 1) % 3
        IN  MulSigned(a[3 * i + 1], b[j + 1]) + MulSigned(a[3 * i + 2], b[j + 4])
            + MulSigned(a[3 * i + 3], b[j + 7]) ]

\* lines 149-157: the tilt that brings North to target
tiltOf(north, target, axis, len) ==
    IF len < 1
    THEN IF dot(north, target) > 0
         THEN identity
         ELSE rotationFromAxisAngle(<< MICRO, 0, 0 >>, PI)
    ELSE rotationFromAxisAngle(normalizeBy(axis, len), angle(north, target))

\* lines 140-160: the matrix rotationFromNorthPole(trend, plunge, spin) returns
rotationFromNorthPoleAt(trend, plunge, spin) ==
    LET north  == << 0, MICRO, 0 >>
        target == lineToDcos(trend, plunge)
        axis   == cross(north, target)
    IN  multiply(tiltOf(north, target, axis, lengthMicro(axis)),
                 rotationFromAxisAngle(north, radiansOf(spin)))

\* The entries of a matrix in millionths, to the nearest thousandth
thousandths(m) ==
    << Round(m[1], ONE), Round(m[2], ONE), Round(m[3], ONE),
       Round(m[4], ONE), Round(m[5], ONE), Round(m[6], ONE),
       Round(m[7], ONE), Round(m[8], ONE), Round(m[9], ONE) >>

\* The entries, in thousandths, of the matrix a rotation stands for
matrixOf(rotation) ==
    IF rotation = null THEN null
    ELSE IF rotation[1] = "caller" THEN QuarterTurn
    ELSE IF rotation[1] = "center"
    THEN thousandths(rotationFromCenterAt(rotation[2], rotation[3]))
    ELSE thousandths(rotationFromNorthPoleAt(rotation[2], rotation[3], rotation[4]))

\* lines 248-275: pole, line, plane and cone push a new object, here the
\* object numbered id, whose _el is null
push(net, type, id) ==
    [ net EXCEPT !.items = Append(@, [ id |-> id, type |-> type ]),
                 !.els = [ k \in (DOMAIN @) \cup {id} |-> IF k = id THEN null ELSE @[k] ] ]

\* Element.remove(): e leaves the children of the group
detached(group, e) == << SelectSeq(group[1], LAMBDA c : c # e) >>

\* Node.appendChild(e): e becomes the last child, leaving the place it had
appendChild(group, e) == << Append(SelectSeq(group[1], LAMBDA c : c # e), e) >>

\* lines 335-342: remove(item), item being the object numbered id
remove(net, id) ==
    [ net EXCEPT !.dataGroup = IF indexOf(net.items, id) >= 1 /\ net.els[id] # null
                               THEN detached(@, net.els[id])
                               ELSE @,
                 !.items = removed(@, id) ]

RECURSIVE detachedAll(_, _, _)
\* lines 327-329: the elements of the first k items leave the document
detachedAll(net, group, k) ==
    IF k = 0 THEN group
    ELSE IF net.els[net.items[k].id] # null
    THEN detached(detachedAll(net, group, k - 1), net.els[net.items[k].id])
    ELSE detachedAll(net, group, k - 1)

\* lines 326-333
clear(net) ==
    [ net EXCEPT !.dataGroup = detachedAll(net, @, Len(net.items)),
                 !.items = << >> ]


\* lines 318-322: the options computeContours is given.  The options of
\* contour() name gridSize, levels and sigma only, so that the spread of line
\* 321 replaces neither the projection nor the rotation
mergedOptions(net) ==
    [ projection |-> net.projection,
      rotation   |-> matrixOf(net.rotation),
      gridSize   |-> net.contourOptions[1].gridSize,
      levels     |-> net.contourOptions[1].levels,
      sigma      |-> net.contourOptions[1].sigma ]

\* lines 313-323: _computeContours
computeContoursOf(net) ==
    IF net.contourDcos = null \/ Len(net.contourDcos[1]) = 0
    THEN [ net EXCEPT !.contourPaths = null ]
    ELSE [ net EXCEPT !.contourPaths =
                          << computeContours(net.contourDcos[1], mergedOptions(net)) >> ]

\* lines 289-294
contour(net, dcos, options) ==
    computeContoursOf([ net EXCEPT !.contourDcos = << dcos >>,
                                   !.contourOptions = << options >> ])

\* lines 297-300
updateContours(net) == computeContoursOf(net)

\* lines 349-352
setRotation(net, rotation) == [ net EXCEPT !.rotation = rotation ]

\* lines 355-358 with the contours recomputed for the new rotation
setCenterUpdating(net, trend, plunge) ==
    updateContours([ net EXCEPT !.rotation = rotationFromCenter(trend, plunge) ])

\* lines 355-358
setCenter(net, trend, plunge) == [ net EXCEPT !.rotation = rotationFromCenter(trend, plunge) ]

\* lines 361-364
setNorthPole(net, trend, plunge, spin) ==
    [ net EXCEPT !.rotation = rotationFromNorthPole(trend, plunge, spin) ]

\* lines 303-311
clearContours(net) ==
    [ net EXCEPT !.contourDcos = null,
                 !.contourOptions = null,
                 !.contourPaths = null,
                 !.contourGroup = IF @ # null THEN << << >> >> ELSE @ ]

\* lines 168-192: _radius, _center, _scale and _toSvg
toSvg(net, p) ==
    LET c == net.size \div 2
        s == Div((net.size - 2 * net.padding) \div 2, projROf(net.projection))
    IN  << c + Mul(p[1], s), c - Mul(p[2], s) >>

RECURSIVE pathLines(_, _, _)
\* lines 481-490: the polylines of the first j paths of one level, a path of
\* one point giving none
pathLines(net, paths, j) ==
    IF j = 0 THEN << >>
    ELSE IF Len(paths[j]) > 1
    THEN Append(pathLines(net, paths, j - 1),
                [ i \in 1..Len(paths[j]) |-> toSvg(net, paths[j][i]) ])
    ELSE pathLines(net, paths, j - 1)

RECURSIVE contourLines(_, _, _)
\* lines 478-491 and 820-832: the polylines of the first k levels
contourLines(net, contours, k) ==
    IF k = 0 THEN << >>
    ELSE contourLines(net, contours, k - 1)
         \o pathLines(net, contours[k].paths, Len(contours[k].paths))

\* lines 373-437: what svg() draws inside the clip group after the grid: the
\* polylines of the cached contours and the items
svg(net) ==
    [ contours |-> IF net.contourPaths # null
                   THEN contourLines(net, net.contourPaths[1], Len(net.contourPaths[1]))
                   ELSE << >>,
      items    |-> net.items ]

\* lines 578-674: _buildDOM
buildDOM(net) ==
    [ net EXCEPT !.el = << "svg" >>,
                 !.contourGroup = << << >> >>,
                 !.dataGroup = << << >> >> ]

\* lines 807-833: _renderContoursDOM
renderContoursDOM(net) ==
    IF net.contourGroup = null THEN net
    ELSE IF net.contourPaths = null THEN [ net EXCEPT !.contourGroup = << << >> >> ]
    ELSE [ net EXCEPT !.contourGroup =
               << contourLines(net, net.contourPaths[1], Len(net.contourPaths[1])) >> ]

\* createElementNS for an item: a circle for a pole or a line, a path for a
\* plane or a cone; old is the element the object held before
elementFor(item, old) ==
    << IF item.type \in {"pole", "line"} THEN "circle" ELSE "path",
       item.id,
       IF old = null THEN 1 ELSE old[3] + 1 >>

\* lines 725-805 with an element made at every call
renderItemDOMAgain(net, item) ==
    [ net EXCEPT !.els[item.id] = elementFor(item, @),
                 !.dataGroup = appendChild(@, elementFor(item, net.els[item.id])) ]

\* lines 725-805: _renderItemDOM
renderItemDOM(net, item) ==
    IF net.els[item.id] = null
    THEN [ net EXCEPT !.els[item.id] = elementFor(item, null),
                      !.dataGroup = appendChild(@, elementFor(item, null)) ]
    ELSE net

RECURSIVE renderItems(_, _)
\* lines 700-702: the first k items rendered in order
renderItems(net, k) ==
    IF k = 0 THEN net
    ELSE renderItemDOM(renderItems(net, k - 1), net.items[k])

\* lines 681-708
render(net) ==
    IF net.el = null THEN net
    ELSE renderItems(renderContoursDOM(net), Len(net.items))

\* lines 569-575
element(net) == IF net.el = null THEN render(buildDOM(net)) ELSE net

-----------------------------------------------------------------------------
(* The calls explored *)

MaxN == 3          \* the largest set of direction cosines
MaxDiag == 3       \* diagonal entries of a matrix range over -MaxDiag..MaxDiag
MaxPoints == 2     \* the largest set of direction cosines contoured
MaxGrid == 8       \* the largest gridSize

\* Unit vectors whose length is exactly 1 in thousandths, in both hemispheres,
\* two of them antipodal pairs
UnitVecs ==
    { <<0, 0, -ONE>>, <<0, 0, ONE>>, <<600, 800, 0>>, <<-600, -800, 0>>,
      <<0, 600, -800>>, <<ONE, 0, 0>>, <<360, 480, -800>> }

DcosSets == UNION { [1..n -> UnitVecs] : n \in 1..MaxN }

\* Symmetric matrices with whole diagonal entries and off-diagonal entries
\* among -1, 0, 1
SymMatrices ==
    { << a00 * ONE, a01 * ONE, a02 * ONE,
         a01 * ONE, a11 * ONE, a12 * ONE,
         a02 * ONE, a12 * ONE, a22 * ONE >> :
        a00 \in -MaxDiag..MaxDiag, a11 \in -MaxDiag..MaxDiag, a22 \in -MaxDiag..MaxDiag,
        a01 \in -1..1, a02 \in -1..1, a12 \in -1..1 }

\* Lower-hemisphere unit vectors to contour
ContourVecs == { <<0, 0, -ONE>>, <<600, 0, -800>>, <<0, -800, -600>> }

ContourSets == UNION { [1..n -> ContourVecs] : n \in 0..MaxPoints }

\* Requested levels: none, one, descending, repeated
LevelLists == { << >>, << 500 >>, << 2 * ONE, 500 >>, << 800, 800 >> }

ContourCalls ==
    [ dcos : ContourSets,
      projection : { "equal-area", "equal-angle" },
      rotation : { null, QuarterTurn },
      gridSize : 2..MaxGrid,
      levels : LevelLists,
      sigma : { null, << 30 * ONE >> } ]

Return(fn, val) ==
    /\ pc = "ready"
    /\ pc' = "done"
    /\ output' = [fn |-> fn, val |-> val]
    /\ UNCHANGED << input, nets, nextClipId >>

(* statistics.js called on a set of direction cosines *)
InitStats ==
    /\ pc = "ready"
    /\ input \in DcosSets
    /\ output = None
    /\ NoNets

Resultant == Return("resultant", resultant(input))
MeanVector == Return("meanVector", meanVector(input))
FisherStats == Return("fisherStats", fisherStats(input))
OrientationTensor == Return("orientationTensor", orientationTensor(input))
PrincipalAxes == Return("principalAxes", principalAxes(input))

NextStats ==
    \/ Resultant
    \/ MeanVector
    \/ FisherStats
    \/ OrientationTensor
    \/ PrincipalAxes

SpecStats == InitStats /\ [][NextStats]_vars

(* principalAxes called on fabrics whose eigenvalues coincide *)
MaxFabric == 4     \* the largest fabric

\* The three axes and one direction between two of them
FabricVecs == { <<ONE, 0, 0>>, <<0, ONE, 0>>, <<0, 0, -ONE>>, <<600, 800, 0>> }

Fabrics == UNION { [1..n -> FabricVecs] : n \in 1..MaxFabric }

InitFabric ==
    /\ pc = "ready"
    /\ input \in Fabrics
    /\ output = None
    /\ NoNets

NextFabric ==
    \/ OrientationTensor
    \/ PrincipalAxes

SpecFabric == InitFabric /\ [][NextFabric]_vars

(* stereonet.js: rotationFromCenter called on a trend and a plunge *)
Trends == { 0, 1, 45, 90, 135, 180, 225, 270, 359, 360 }
Plunges == { -90, -89, -45, -1, 0, 1, 30, 45, 60, 89, 90 }

InitCenter ==
    /\ pc = "ready"
    /\ input \in Trends \X Plunges
    /\ output = None
    /\ NoNets

RotationFromCenter ==
    Return("rotationFromCenter", rotationFromCenterAt(input[1], input[2]))

NextCenter == RotationFromCenter

SpecCenter == InitCenter /\ [][NextCenter]_vars

(* core/eigen.js called on a symmetric matrix *)
InitEigen ==
    /\ pc = "ready"
    /\ input \in SymMatrices
    /\ output = None
    /\ NoNets

SymmetricEigen3 == Return("symmetricEigen3", symmetricEigen3(input))

NextEigen == SymmetricEigen3

SpecEigen == InitEigen /\ [][NextEigen]_vars

(* contouring.js called on a set of direction cosines with options *)
InitContour ==
    /\ pc = "ready"
    /\ input \in ContourCalls
    /\ output = None
    /\ NoNets

ComputeContours == Return("computeContours", computeContours(input.dcos, input))

NextContour == ComputeContours

SpecContour == InitContour /\ [][NextContour]_vars

(* core/conversions.js called on attitudes in whole degrees: a plane        *)
(* <<dd, dip>> taken to its pole and back, or two planes intersected        *)
Azimuths == { 0, 1, 45, 90, 135, 179, 180, 181, 225, 270, 315, 359, 360 }
Dips == { 0, 1, 30, 45, 60, 89, 90 }
Attitudes == { << dd, dip >> : dd \in Azimuths, dip \in Dips }
PlanePairs == { << a[1], a[2], b[1], b[2] >> : a \in Attitudes, b \in Attitudes }

InitConv ==
    /\ pc = "ready"
    /\ input \in Attitudes \cup PlanePairs
    /\ output = None
    /\ NoNets

PlaneToDcos ==
    /\ Len(input) = 2
    /\ Return("planeToDcos", planeToDcos(input[1], input[2]))

\* the pole just computed is converted back
DcosToPlane ==
    /\ pc = "done"
    /\ output.fn = "planeToDcos"
    /\ pc' = "back"
    /\ output' = [fn |-> "dcosToPlane", val |-> dcosToPlane(output.val)]
    /\ UNCHANGED << input, nets, nextClipId >>

PlaneIntersectionLine ==
    /\ Len(input) = 4
    /\ Return("planeIntersectionLine",
              planeIntersectionLine(input[1], input[2], input[3], input[4]))

NextConv ==
    \/ PlaneToDcos
    \/ DcosToPlane
    \/ PlaneIntersectionLine

SpecConv == InitConv /\ [][NextConv]_vars

(* The operations called on arrays of the caller: a set of vectors, a        *)
(* matrix and a list of levels                                              *)
Matrices ==
    { << ONE, 0, 0, 0, ONE, 0, 0, 0, ONE >>, QuarterTurn,
      << 2 * ONE, ONE, ONE, ONE, 2 * ONE, ONE, ONE, ONE, 2 * ONE >> }

\* the heap of a caller holding the vectors of d, then the set, m and l
callerHeap(d, m, l) == d \o << [ i \in 1..Len(d) |-> i ], m, l >>

FrameCalls ==
    { [ heap |-> callerHeap(d, m, l), dcos |-> Len(d) + 1, m |-> Len(d) + 2,
        levels |-> Len(d) + 3 ] :
        d \in ContourSets \ { << >> }, m \in Matrices, l \in LevelLists }

InitFrame ==
    /\ pc = "ready"
    /\ input \in FrameCalls
    /\ output = None
    /\ NoNets

CallResultant == Return("resultant", resultantIn(input.heap, input.dcos))
CallFisherStats == Return("fisherStats", fisherStatsIn(input.heap, input.dcos))
CallOrientationTensor ==
    Return("orientationTensor", orientationTensorIn(input.heap, input.dcos))
CallPrincipalAxes == Return("principalAxes", principalAxesIn(input.heap, input.dcos))
CallSymmetricEigen3 == Return("symmetricEigen3", symmetricEigen3In(input.heap, input.m))
CallOrthonormalize == Return("orthonormalize", orthonormalizeIn(input.heap, input.m))
CallComputeContours ==
    Return("computeContours",
           computeContoursIn(input.heap, input.dcos, input.m, input.levels))

NextFrame ==
    \/ CallResultant
    \/ CallFisherStats
    \/ CallOrientationTensor
    \/ CallPrincipalAxes
    \/ CallSymmetricEigen3
    \/ CallOrthonormalize
    \/ CallComputeContours

SpecFrame == InitFrame /\ [][NextFrame]_vars

(* stereonet.js: instances constructed one after another *)
MaxNets == 3       \* the most instances constructed

Options ==
    [ rotation  : { null, << "caller", 1 >> },
      center    : { null, << 90, 0 >> },
      northPole : { null, << 0, 0 >>, << 0, 0, 90 >> } ]

InitNet ==
    /\ pc = "ready"
    /\ input = << >>
    /\ output = None
    /\ NoNets

\* new Stereonet(options); input keeps the options of each construction
Construct ==
    /\ Len(nets) < MaxNets
    /\ \E options \in Options :
          /\ nets' = Append(nets, constructed(options, nextClipId))
          /\ input' = Append(input, options)
    /\ nextClipId' = nextClipId + 1
    /\ UNCHANGED << pc, output >>

NextNet == Construct

SpecNet == InitNet /\ [][NextNet]_vars

(* stereonet.js: pole, line, plane, cone, remove and clear called on one     *)
(* instance; input keeps the calls made, and the object a call makes is      *)
(* known by the number of the call                                           *)
MaxCalls == 4      \* the most calls made on the instance

InitItems ==
    /\ pc = "ready"
    /\ input = << >>
    /\ output = None
    /\ nets = << constructed([ rotation |-> null, center |-> null, northPole |-> null ], 0) >>
    /\ nextClipId = 1

\* lines 248-275: push of a new object of the given type
Push(type) ==
    /\ Len(input) < MaxCalls
    /\ nets' = [ nets EXCEPT ![1] = push(@, type, Len(input) + 1) ]
    /\ input' = Append(input, [ op |-> type, id |-> Len(input) + 1 ])
    /\ UNCHANGED << pc, output, nextClipId >>

Pole == Push("pole")
Line == Push("line")
Plane == Push("plane")
Cone == Push("cone")

\* remove(item), item being any object made so far or one the list never held
Remove ==
    /\ Len(input) < MaxCalls
    /\ \E id \in 0..Len(input) :
          /\ nets' = [ nets EXCEPT ![1] = remove(@, id) ]
          /\ input' = Append(input, [ op |-> "remove", id |-> id ])
    /\ UNCHANGED << pc, output, nextClipId >>

\* lines 326-332
Clear ==
    /\ Len(input) < MaxCalls
    /\ nets' = [ nets EXCEPT ![1] = clear(@) ]
    /\ input' = Append(input, [ op |-> "clear", id |-> 0 ])
    /\ UNCHANGED << pc, output, nextClipId >>

NextItems ==
    \/ Pole
    \/ Line
    \/ Plane
    \/ Cone
    \/ Remove
    \/ Clear

SpecItems == InitItems /\ [][NextItems]_vars

(* stereonet.js: element() and render() called between the calls above *)

\* lines 569-575: element() returns the svg element
Element ==
    /\ nets' = [ nets EXCEPT ![1] = element(@) ]
    /\ output' = [ fn |-> "element", val |-> element(nets[1]).el ]
    /\ UNCHANGED << pc, input, nextClipId >>

\* lines 681-708: render() returns the instance
Render ==
    /\ nets' = [ nets EXCEPT ![1] = render(@) ]
    /\ output' = [ fn |-> "render", val |-> "this" ]
    /\ UNCHANGED << pc, input, nextClipId >>

NextDom ==
    \/ Pole
    \/ Line
    \/ Plane
    \/ Cone
    \/ Remove
    \/ Clear
    \/ Element
    \/ Render

SpecDom == InitItems /\ [][NextDom]_vars

(* stereonet.js: the methods that contour, turn the view, list items and    *)
(* draw, called in any order on one instance.  input counts the item        *)
(* objects made, and output holds the last call and what it returned        *)
\* The item objects the caller makes, by number
DrawnObjects == { 1 }

\* What contour() is given: no vector or one, and its options
CacheDcos == { << >>, << << 600, 0, -800 >> >> }
CacheOptions == { [ gridSize |-> 4, levels |-> << 800 >>, sigma |-> null ] }

InitCache ==
    /\ pc = "ready"
    /\ input = 0
    /\ output = None
    /\ nets = << constructed([ rotation |-> null, center |-> null, northPole |-> null ], 0) >>
    /\ nextClipId = 1

\* A method that returns the instance, leaving it as net
Method(fn, net) ==
    /\ nets' = << net >>
    /\ output' = [ fn |-> fn, val |-> "this" ]
    /\ UNCHANGED << pc, nextClipId >>

Contour ==
    /\ \E dcos \in CacheDcos : \E options \in CacheOptions :
          Method("contour", contour(nets[1], dcos, options))
    /\ UNCHANGED input

UpdateContours == Method("updateContours", updateContours(nets[1])) /\ UNCHANGED input

ClearContours == Method("clearContours", clearContours(nets[1])) /\ UNCHANGED input

SetRotation ==
    /\ \E rotation \in { null, << "caller", 1 >> } :
          Method("setRotation", setRotation(nets[1], rotation))
    /\ UNCHANGED input

SetCenter == Method("setCenter", setCenter(nets[1], 90, 0)) /\ UNCHANGED input

SetNorthPole == Method("setNorthPole", setNorthPole(nets[1], 0, 0, 90)) /\ UNCHANGED input

\* pole, line, plane or cone
AddItem ==
    /\ input + 1 \in DrawnObjects
    /\ \E type \in { "pole", "line", "plane", "cone" } :
          Method(type, push(nets[1], type, input + 1))
    /\ input' = input + 1

\* remove(item), item being any object made so far or one the list never held
RemoveItem ==
    /\ \E id \in 0..input : Method("remove", remove(nets[1], id))
    /\ UNCHANGED input

ClearItems == Method("clear", clear(nets[1])) /\ UNCHANGED input

\* lines 373-437: svg() returns the drawing
Svg ==
    /\ output' = [ fn |-> "svg", val |-> svg(nets[1]) ]
    /\ UNCHANGED << pc, input, nets, nextClipId >>

NextCache ==
    \/ Contour
    \/ UpdateContours
    \/ ClearContours
    \/ SetRotation
    \/ SetCenter
    \/ SetNorthPole
    \/ AddItem
    \/ RemoveItem
    \/ ClearItems
    \/ Svg
    \/ Element
    \/ Render

SpecCache == InitCache /\ [][NextCache]_vars

(* contouring.js: marchingSquares called on a grid of one cell, whose nodes  *)
(* are, row by row, the corners TL, TR, BL, BR                               *)
CornerValues == { NaN, 0, 300, 500, ONE }
CellLevels == { 500, 650 }

InitCell ==
    /\ pc = "ready"
    /\ input \in [ grid : [1..4 -> CornerValues], level : CellLevels ]
    /\ output = None
    /\ NoNets

MarchingSquares ==
    Return("marchingSquares", marchingSquares(input.grid, 2, 2 * ONE, ONE, input.level))

NextCell == MarchingSquares

SpecCell == InitCell /\ [][NextCell]_vars

(* contouring.js: assembleSegments run pass by pass on a list of segments.   *)
(* output holds the variables of the function: s, used, paths and path; pc  *)
(* is "outer" at the head of the loop of line 174, "forward" and "backward" *)
(* at the heads of the loops of lines 182 and 198                           *)
MaxSegs == 3       \* the longest list of segments

EndPoints == { << 0, 0 >>, << ONE, 0 >>, << 0, ONE >> }

\* Segments between any two of the points, the zero-length ones among them
SegmentLists == UNION { [1..n -> EndPoints \X EndPoints] : n \in 0..MaxSegs }

InitAssemble ==
    /\ pc = "ready"
    /\ input \in SegmentLists
    /\ output = None
    /\ NoNets

\* the variables of assembleSegments
running(s, used, paths, path) ==
    [ fn |-> "assembleSegments", s |-> s, used |-> used, paths |-> paths,
      path |-> path, val |-> << >> ]

\* lines 183-193 without the mark on the segment taken
forwardPassUnmarked(st, segments) ==
    [ st EXCEPT !.path = pushed(st.path, segments,
                                least(touching(st.path[Len(st.path)], segments, st.used))) ]

\* lines 183-193: the pass that finds segment i takes its far end and marks it
forwardPass(st, segments) ==
    [ st EXCEPT !.path = pushed(st.path, segments,
                                least(touching(st.path[Len(st.path)], segments, st.used))),
                !.used = st.used \cup { least(touching(st.path[Len(st.path)], segments, st.used)) } ]

\* lines 199-209
backwardPass(st, segments) ==
    [ st EXCEPT !.path = unshifted(st.path, segments,
                                   least(touching(st.path[1], segments, st.used))),
                !.used = st.used \cup { least(touching(st.path[1], segments, st.used)) } ]

\* lines 169-174
Call ==
    /\ pc = "ready"
    /\ IF Len(input) = 0
       THEN /\ pc' = "done"
            /\ output' = [ running(1, {}, << >>, << >>) EXCEPT !.val = << >> ]
       ELSE /\ pc' = "outer"
            /\ output' = running(1, {}, << >>, << >>)
    /\ UNCHANGED << input, nets, nextClipId >>

\* line 175
Skip ==
    /\ pc = "outer"
    /\ output.s <= Len(input)
    /\ output.s \in output.used
    /\ output' = [ output EXCEPT !.s = @ + 1 ]
    /\ UNCHANGED << pc, input, nets, nextClipId >>

\* lines 176-181
StartPath ==
    /\ pc = "outer"
    /\ output.s <= Len(input)
    /\ output.s \notin output.used
    /\ pc' = "forward"
    /\ output' = [ output EXCEPT !.used = @ \cup { output.s },
                                 !.path = << input[output.s][1], input[output.s][2] >> ]
    /\ UNCHANGED << input, nets, nextClipId >>

\* lines 182-194: one pass of the while loop
ExtendForward ==
    /\ pc = "forward"
    /\ IF touching(output.path[Len(output.path)], input, output.used) # {}
       THEN /\ output' = forwardPass(output, input)
            /\ pc' = "forward"
       ELSE /\ pc' = "backward"
            /\ UNCHANGED output
    /\ UNCHANGED << input, nets, nextClipId >>

\* lines 198-212: one pass of the while loop; the path is kept when it ends
ExtendBackward ==
    /\ pc = "backward"
    /\ IF touching(output.path[1], input, output.used) # {}
       THEN /\ output' = backwardPass(output, input)
            /\ pc' = "backward"
       ELSE /\ pc' = "outer"
            /\ output' = [ output EXCEPT !.paths = Append(@, output.path),
                                         !.path = << >>, !.s = @ + 1 ]
    /\ UNCHANGED << input, nets, nextClipId >>

\* line 215
ReturnPaths ==
    /\ pc = "outer"
    /\ output.s > Len(input)
    /\ pc' = "done"
    /\ output' = [ output EXCEPT !.val = output.paths ]
    /\ UNCHANGED << input, nets, nextClipId >>

NextAssemble ==
    \/ Call
    \/ Skip
    \/ StartPath
    \/ ExtendForward
    \/ ExtendBackward
    \/ ReturnPaths

SpecAssemble == InitAssemble /\ [][NextAssemble]_vars

\* the function runs on: no other thread, no await
SpecAssembleFair == SpecAssemble /\ WF_vars(NextAssemble)

-----------------------------------------------------------------------------
(* Properties of computeContours, checked under SpecContour *)

Contoured == pc = "done" /\ output.fn = "computeContours"

\* The square of the projection radius in millionths: 2 for "equal-area", 1
\* for "equal-angle"
projR2 == IF input.projection = "equal-angle" THEN MICRO ELSE 2 * MICRO

\* C1: computeContours returns exactly one {level, paths} entry per requested
\* level, in the order requested and with level equal to the requested value,
\* for every input set; when the input set is empty every paths list is empty.
C1_OneEntryPerLevel ==
    Contoured =>
        /\ DOMAIN output.val = 1..Len(input.levels)
        /\ \A k \in 1..Len(input.levels) :
              /\ DOMAIN output.val[k] = { "level", "paths" }
              /\ output.val[k].level = input.levels[k]
              /\ Len(input.dcos) = 0 => output.val[k].paths = << >>

\* An empty set contoured at two levels
C1_Witness ==
    /\ Contoured
    /\ input.dcos = << >>
    /\ input.levels = << 2 * ONE, 500 >>
    /\ output.val = << [ level |-> 2 * ONE, paths |-> << >> ],
                       [ level |-> 500, paths |-> << >> ] >>

\* C2: for every nonempty input set, every level and every gridSize >= 2, each
\* point [px, py] of each returned path lies inside the projection disk with
\* tolerance: px*px + py*py <= 1.1 * projR^2.
C2_PointsInsideDisk ==
    (Contoured /\ Len(input.dcos) > 0 /\ input.gridSize >= 2) =>
        \A k \in DOMAIN output.val :
            \A q \in DOMAIN output.val[k].paths :
                \A r \in DOMAIN output.val[k].paths[q] :
                    10 * (output.val[k].paths[q][r][1] * output.val[k].paths[q][r][1]
                          + output.val[k].paths[q][r][2] * output.val[k].paths[q][r][2])
                        <= 11 * projR2

\* A nonempty set on the largest grid with a closed contour of at least four
\* points at its first level
C2_Witness ==
    /\ Contoured
    /\ Len(input.dcos) > 0
    /\ input.gridSize = MaxGrid
    /\ Len(output.val) > 0
    /\ Len(output.val[1].paths) > 0
    /\ Len(output.val[1].paths[1]) > 4
    /\ output.val[1].paths[1][1] = output.val[1].paths[1][Len(output.val[1].paths[1])]

-----------------------------------------------------------------------------
(* Properties of symmetricEigen3, checked under SpecEigen *)

Decomposed == pc = "done" /\ output.fn = "symmetricEigen3"

Max3(a, b, c) == Max2(a, Max2(b, c))

\* The largest component of a - b in magnitude
VecErr(a, b) == Max3(Abs(a[1] - b[1]), Abs(a[2] - b[2]), Abs(a[3] - b[3]))

\* The largest component of A v - lambda v over the three returned pairs
Residual ==
    LET Av(v) == transformVec3(input, v)
        e == output.val
    IN  Max3(VecErr(Av(e.vectors[1]), scale(e.vectors[1], e.values[1])),
             VecErr(Av(e.vectors[2]), scale(e.vectors[2], e.values[2])),
             VecErr(Av(e.vectors[3]), scale(e.vectors[3], e.values[3])))

\* The largest pairwise dot product of the returned vectors in magnitude
NonOrthogonality ==
    LET e == output.val
    IN  Max3(Abs(Dot3(e.vectors[1], e.vectors[2])),
             Abs(Dot3(e.vectors[1], e.vectors[3])),
             Abs(Dot3(e.vectors[2], e.vectors[3])))

\* The largest distance of a returned vector's squared length from 1
NonUnit ==
    LET e == output.val
    IN  Max3(Abs(Dot3(e.vectors[1], e.vectors[1]) - ONE),
             Abs(Dot3(e.vectors[2], e.vectors[2]) - ONE),
             Abs(Dot3(e.vectors[3], e.vectors[3]) - ONE))

OffDiagonalZero == input[2] = 0 /\ input[3] = 0 /\ input[6] = 0

\* C3: for any symmetric 3x3 matrix, symmetricEigen3 returns three unit-length
\* eigenvectors that are mutually orthogonal and each returned pair satisfies
\* A v = lambda v.  The tolerances of the claim (1e-6, 1e-9) are far below the
\* resolution; one half is used for all three, so that only a gross failure,
\* far beyond any rounding, violates the statement.
C3_Orthonormal ==
    Decomposed =>
        /\ 2 * NonUnit <= ONE
        /\ 2 * NonOrthogonality <= ONE
        /\ 2 * Residual <= ONE

\* C4: for any symmetric 3x3 matrix, on both paths, the three eigenvalues
\* returned sum to the trace of the input (the middle one being derived as
\* 3q - lambda1 - lambda3 with q = trace / 3), to within the one thousandth by
\* which 3q differs from the trace when q is rounded.
C4_TracePreserved ==
    Decomposed =>
        Abs(output.val.values[1] + output.val.values[2] + output.val.values[3]
            - (input[1] + input[5] + input[9])) <= 1

\* The general path taken on a matrix of trace 4, with distinct eigenvalues
C4_Witness ==
    /\ Decomposed
    /\ ~OffDiagonalZero
    /\ input[1] + input[5] + input[9] = 4 * ONE
    /\ output.val.values[1] > output.val.values[2]
    /\ output.val.values[2] > output.val.values[3]
    /\ Abs(output.val.values[1] + output.val.values[2] + output.val.values[3] - 4 * ONE) <= 1

Axes == << << ONE, 0, 0 >>, << 0, ONE, 0 >>, << 0, 0, ONE >> >>

\* C5: when the off-diagonal entries vanish, symmetricEigen3 returns the
\* diagonal entries sorted in descending order (negative and repeated entries
\* included) and, at each position k, the axis-aligned unit vector of the
\* diagonal position the k-th value came from.
C5_DiagonalSorted ==
    (Decomposed /\ OffDiagonalZero) =>
        /\ output.val.values[1] >= output.val.values[2]
        /\ output.val.values[2] >= output.val.values[3]
        /\ \E f \in [1..3 -> 1..3] :
              /\ \A k, l \in 1..3 : k # l => f[k] # f[l]
              /\ \A k \in 1..3 :
                    /\ output.val.values[k] = input[4 * f[k] - 3]
                    /\ output.val.vectors[k] = Axes[f[k]]

\* diag(3, 1, 2) gives values [3, 2, 1] with vectors [1,0,0], [0,0,1], [0,1,0]
C5_Witness ==
    /\ Decomposed
    /\ input = << 3 * ONE, 0, 0, 0, ONE, 0, 0, 0, 2 * ONE >>
    /\ output.val.values = << 3 * ONE, 2 * ONE, ONE >>
    /\ output.val.vectors = << Axes[1], Axes[3], Axes[2] >>

-----------------------------------------------------------------------------
(* Properties of statistics.js, checked under SpecStats *)

Returned(fn) == pc = "done" /\ output.fn = fn

\* C6: fisherStats of a single-element set of one unit vector returns kappa =
\* +Infinity; more generally kappa is +Infinity exactly when n - R is not above
\* the threshold 1e-10 (perfect concentration) and a finite number otherwise.
C6_KappaInfinite ==
    Returned("fisherStats") =>
        /\ Len(input) = 1 => output.val.kappa = Infinity
        /\ output.val.kappa = Infinity <=> Tiny(Len(input) * ONE - output.val.R)
        /\ output.val.kappa # Infinity =>
              output.val.kappa \in 0..(Len(input) * ONE * ONE)

\* One unit vector, with infinite kappa
C6_Witness ==
    /\ Returned("fisherStats")
    /\ input = << << 600, 800, 0 >> >>
    /\ output.val.R = ONE
    /\ output.val.kappa = Infinity

C8_MeanVectorFallback ==
    Returned("meanVector") =>
        IF NotTiny(length(resultant(input)))
        THEN VecErr(scale(output.val, length(resultant(input))), resultant(input)) <= 3
        ELSE output.val = << 0, 0, -ONE >>

\* C9: for every nonempty set, fisherStats(...).mean is a unit vector: it is
\* resultant / R when R is above the threshold 1e-10 and the fixed fallback
\* [0, 0, -1] when it is not (zero resultant).  Lengths and quotients are
\* compared to within three thousandths.
C9_MeanUnit ==
    Returned("fisherStats") =>
        /\ Abs(length(output.val.mean) - ONE) <= 3
        /\ IF NotTiny(output.val.R)
           THEN VecErr(output.val.mean,
                       << Div(resultant(input)[1], output.val.R),
                          Div(resultant(input)[2], output.val.R),
                          Div(resultant(input)[3], output.val.R) >>) <= 3
           ELSE output.val.mean = << 0, 0, -ONE >>

\* Two opposite vectors: the resultant is zero and the mean is the fallback
C9_Witness ==
    /\ Returned("fisherStats")
    /\ input = << << 600, 800, 0 >>, << -600, -800, 0 >> >>
    /\ output.val.R = 0
    /\ output.val.mean = << 0, 0, -ONE >>

\* C10: for any nonempty set of unit vectors, the Vollmer indices returned by
\* principalAxes satisfy P + G + R = S1 + S2 + S3 = 1, where P = S1 - S2,
\* G = 2 (S2 - S3), R = 3 S3 and S1, S2, S3 are the returned eigenvalues of
\* the orientation tensor (sums to within three thousandths).
C10_VollmerSum ==
    Returned("principalAxes") =>
        /\ output.val.P = output.val.eigenvalues[1] - output.val.eigenvalues[2]
        /\ output.val.G = 2 * (output.val.eigenvalues[2] - output.val.eigenvalues[3])
        /\ output.val.R = 3 * output.val.eigenvalues[3]
        /\ output.val.P + output.val.G + output.val.R
              = output.val.eigenvalues[1] + output.val.eigenvalues[2]
                + output.val.eigenvalues[3]
        /\ Abs(output.val.P + output.val.G + output.val.R - ONE) <= 3

\* Three vectors spanning space: all three indices are positive
C10_Witness ==
    /\ Returned("principalAxes")
    /\ Len(input) = 3
    /\ output.val.P > 0
    /\ output.val.G > 0
    /\ output.val.R > 0
    /\ Abs(output.val.P + output.val.G + output.val.R - ONE) <= 3

Decomposition == symmetricEigen3(orientationTensor(input))

\* C12: every eigenvector returned by principalAxes has third component <= 0:
\* any eigenvector of the decomposition with positive third component is
\* replaced by its antipode, and the others are returned unchanged.
C12_LowerHemisphere ==
    Returned("principalAxes") =>
        \A i \in 1..3 :
            /\ output.val.eigenvectors[i][3] <= 0
            /\ Decomposition.vectors[i][3] > 0 =>
                  /\ output.val.eigenvectors[i][1] = -Decomposition.vectors[i][1]
                  /\ output.val.eigenvectors[i][2] = -Decomposition.vectors[i][2]
                  /\ output.val.eigenvectors[i][3] = -Decomposition.vectors[i][3]
            /\ Decomposition.vectors[i][3] <= 0 =>
                  output.val.eigenvectors[i] = Decomposition.vectors[i]

\* A set whose decomposition has an upward vector, returned flipped, beside
\* one returned unchanged
C12_Witness ==
    /\ Returned("principalAxes")
    /\ \E i \in 1..3 :
          /\ Decomposition.vectors[i][3] > 0
          /\ Decomposition.vectors[i][1] # 0
          /\ output.val.eigenvectors[i][3] < 0
    /\ \E i \in 1..3 :
          /\ Decomposition.vectors[i][3] < 0
          /\ output.val.eigenvectors[i] = Decomposition.vectors[i]

-----------------------------------------------------------------------------
(* Properties of core/conversions.js, checked under SpecConv *)

\* The cross product of the poles of the two planes of the call
PoleCross ==
    cross(planeToDcos(input[1], input[2]), planeToDcos(input[3], input[4]))

\* C13: planeIntersectionLine returns null exactly when the cross product of
\* the two poles is shorter than the threshold, which it is for two identical
\* planes; otherwise it returns a pair <<trend, plunge>> with the plunge
\* within [0, 90] degrees.
C13_IntersectionOrNull ==
    Returned("planeIntersectionLine") =>
        /\ output.val = null <=> Tiny(lengthMicro(PoleCross))
        /\ (input[1] = input[3] /\ input[2] = input[4]) => output.val = null
        /\ output.val # null =>
              /\ Len(output.val) = 2
              /\ output.val[2] >= 0
              /\ output.val[2] <= 90 * ONE

\* Two identical inclined planes, for which null came back
C13_Witness ==
    /\ Returned("planeIntersectionLine")
    /\ input[1] = input[3]
    /\ input[2] = input[4]
    /\ input[2] = 45
    /\ output.val = null

-----------------------------------------------------------------------------
(* Properties of the operations on the caller's arrays, checked under SpecFrame *)

\* C15: resultant, fisherStats, orientationTensor, principalAxes,
\* symmetricEigen3, orthonormalize and computeContours leave every array of
\* the caller (the set, each vector, the matrix, the levels) as it was, and
\* the arrays of their result are new ones.
C15_InputsUntouched ==
    pc = "done" =>
        /\ \A a \in 1..Len(input.heap) : output.val.heap[a] = input.heap[a]
        /\ output.val.refs # {}
        /\ \A a \in output.val.refs : a > Len(input.heap)

\* principalAxes on a set with an upward axis: it wrote into the array of the
\* three vectors, which is not one of the caller's
C15_Witness ==
    /\ Returned("principalAxes")
    /\ Len(input.heap) = 5
    /\ Len(output.val.heap) > Len(input.heap) + 6

-----------------------------------------------------------------------------
(* Properties of the items of a Stereonet, checked under SpecItems *)

RECURSIVE Expected(_)
\* What the calls made so far should have left: the objects added since the
\* last clear and not removed since, in the order they were added, each with
\* the type of the method that added it
Expected(calls) ==
    IF calls = << >> THEN << >>
    ELSE IF calls[Len(calls)].op = "clear" THEN << >>
    ELSE IF calls[Len(calls)].op = "remove"
    THEN SelectSeq(Expected(SubSeq(calls, 1, Len(calls) - 1)),
                   LAMBDA it : it.id # calls[Len(calls)].id)
    ELSE Append(Expected(SubSeq(calls, 1, Len(calls) - 1)),
                [ id |-> calls[Len(calls)].id, type |-> calls[Len(calls)].op ])

\* C16: after any sequence of pole, line, plane, cone, remove and clear calls
\* the items of the Stereonet are exactly the items added since the last clear
\* and not removed, in insertion order, each with the type of the method that
\* added it; remove deletes only the item given and does nothing when the
\* list does not hold it.
C16_ItemsAsAdded == nets[1].items = Expected(input)

\* Of three items added the middle one was removed
C16_Witness ==
    /\ Len(input) = 4
    /\ input[4].op = "remove" /\ input[4].id = 2
    /\ Len(nets[1].items) = 2
    /\ nets[1].items[1] = [ id |-> 1, type |-> "pole" ]
    /\ nets[1].items[2] = [ id |-> 3, type |-> "cone" ]

-----------------------------------------------------------------------------
(* Properties of the constructor of Stereonet, checked under SpecNet *)

\* C17: every instance has a clip-path identifier different from that of
\* every other instance, and the shared counter only ever goes up, by one at
\* each construction.
C17_ClipIdsDistinct ==
    /\ [](\A i \in 1..Len(nets) : \A j \in 1..Len(nets) :
              i # j => nets[i].clipId # nets[j].clipId)
    /\ [][/\ nextClipId' = nextClipId + 1
          /\ Len(nets') = Len(nets) + 1]_<< nextClipId, nets >>

\* Three instances have been constructed
C17_Witness ==
    /\ Len(nets) = 3
    /\ nextClipId = 3
    /\ nets[3].clipId # nets[1].clipId

\* C18: the constructor takes the initial rotation from options.rotation, the
\* very object, when given; otherwise it builds it from options.center when
\* given; otherwise from options.northPole when given; otherwise it is null.
C18_RotationPrecedence ==
    \A k \in 1..Len(nets) :
        /\ input[k].rotation # null => nets[k].rotation = input[k].rotation
        /\ (input[k].rotation = null /\ input[k].center # null) =>
              nets[k].rotation = << "center", input[k].center[1], input[k].center[2] >>
        /\ (input[k].rotation = null /\ input[k].center = null /\ input[k].northPole # null) =>
              /\ Len(nets[k].rotation) = 4
              /\ nets[k].rotation[1] = "northPole"
              /\ nets[k].rotation[2] = input[k].northPole[1]
              /\ nets[k].rotation[3] = input[k].northPole[2]
        /\ (input[k].rotation = null /\ input[k].center = null /\ input[k].northPole = null) =>
              nets[k].rotation = null

\* An instance given both a center and a north pole, and no rotation
C18_Witness ==
    /\ Len(nets) >= 1
    /\ input[1].rotation = null
    /\ input[1].center = << 90, 0 >>
    /\ input[1].northPole = << 0, 0, 90 >>
    /\ nets[1].rotation = << "center", 90, 0 >>

-----------------------------------------------------------------------------
(* Properties of marchingSquares on one cell, checked under SpecCell *)

\* marchingSquares returned for a cell whose corners are all numbers
CellDone == Returned("marchingSquares") /\ \A k \in 1..4 : ~isNaN(input.grid[k])

\* The corners TL, TR, BL, BR at or above the level
Above == { k \in 1..4 : input.grid[k] >= input.level }

\* The code of the cell: TL = 8, TR = 4, BR = 2, BL = 1
Code ==
    (IF 1 \in Above THEN 8 ELSE 0) + (IF 2 \in Above THEN 4 ELSE 0)
    + (IF 4 \in Above THEN 2 ELSE 0) + (IF 3 \in Above THEN 1 ELSE 0)

\* The corners at the ends of the edges top, right, bottom, left
EdgeEnds == { {1, 2}, {2, 4}, {3, 4}, {1, 3} }

\* The point p lies on the edge between the corners of e (the cell spans
\* -1..1 both ways, and the top row is y = 1)
OnEdge(p, e) ==
    IF e = {1, 2} THEN p[2] = ONE /\ p[1] >= -ONE /\ p[1] <= ONE
    ELSE IF e = {3, 4} THEN p[2] = -ONE /\ p[1] >= -ONE /\ p[1] <= ONE
    ELSE IF e = {1, 3} THEN p[1] = -ONE /\ p[2] >= -ONE /\ p[2] <= ONE
    ELSE p[1] = ONE /\ p[2] >= -ONE /\ p[2] <= ONE

\* The segment seg joins the edges e and f
Joins(seg, e, f) ==
    \/ OnEdge(seg[1], e) /\ OnEdge(seg[2], f)
    \/ OnEdge(seg[1], f) /\ OnEdge(seg[2], e)

\* The edges whose two corners are classified differently
Crossed == { e \in EdgeEnds : Cardinality(e \cap Above) = 1 }

\* C19: codes 0 and 15 emit no segment; each of the twelve codes that are not
\* saddles emits exactly one segment, which joins the two edges of the cell
\* whose corners differ in classification; the saddles 5 and 10 emit exactly
\* two segments.
C19_SegmentsPerCode ==
    CellDone =>
        /\ Code \in {0, 15} => Len(output.val) = 0
        /\ Code \in {5, 10} => Len(output.val) = 2
        /\ Code \notin {0, 5, 10, 15} =>
              /\ Len(output.val) = 1
              /\ Cardinality(Crossed) = 2
              /\ \E e \in Crossed : \E f \in Crossed \ {e} : Joins(output.val[1], e, f)

\* Only the bottom-left corner is above the level, strictly, and the one
\* segment runs between points inside the bottom and the left edge
C19_Witness ==
    /\ CellDone
    /\ Code = 1
    /\ Len(output.val) = 1
    /\ output.val[1][1][2] = -ONE
    /\ output.val[1][1][1] > -ONE
    /\ output.val[1][2][1] = -ONE
    /\ output.val[1][2][2] > -ONE

\* The corners a saddle cuts off: those below the level when the mean of the
\* four corners is at or above it, those at or above it otherwise
CutOff ==
    IF input.grid[1] + input.grid[2] + input.grid[3] + input.grid[4] >= 4 * input.level
    THEN (1..4) \ Above
    ELSE Above

\* C20: in a saddle cell, when the mean of the four corners is at or above the
\* level (a mean equal to the level counts as above) the two segments cut off
\* the two corners below the level, and otherwise they cut off the two corners
\* above it: around each such corner one segment joins its two edges.
C20_SaddleByMean ==
    (CellDone /\ Code \in {5, 10}) =>
        /\ Len(output.val) = 2
        /\ Cardinality(CutOff) = 2
        /\ \A c \in CutOff :
              \E k \in 1..2 : \E e \in EdgeEnds : \E f \in EdgeEnds \ {e} :
                  /\ c \in e
                  /\ c \in f
                  /\ Joins(output.val[k], e, f)
        /\ \A c \in (1..4) \ CutOff :
              \A k \in 1..2 : \A e \in EdgeEnds : \A f \in EdgeEnds \ {e} :
                  (c \in e /\ c \in f /\ input.grid[c] # input.level)
                      => ~Joins(output.val[k], e, f)

\* A saddle whose mean equals the level: the corners below it are cut off
C20_Witness ==
    /\ CellDone
    /\ Code = 5
    /\ input.grid[1] + input.grid[2] + input.grid[3] + input.grid[4] = 4 * input.level
    /\ Joins(output.val[1], {1, 2}, {1, 3})
    /\ Joins(output.val[2], {3, 4}, {2, 4})

-----------------------------------------------------------------------------
(* Properties of the density grid of computeContours, checked under SpecContour *)

\* The quantities of lines 39-51 and the grid of lines 50-76 for the call made
CallContext == context(input.dcos, input, projROf(input.projection))
CallGrid == gridFrom(input.gridSize, CallContext)

\* The coordinates of the node in column i of row j, both counted from 0
NodeX(i, c) == -c.projR + i * c.step
NodeY(j, c) == c.projR - j * c.step

\* The node lies beyond 1.02 projR^2
Beyond(i, j, c) ==
    Round(NodeX(i, c) * NodeX(i, c) + NodeY(j, c) * NodeY(j, c), ONE)
        > Round(Mul(c.projR, c.projR) * 102, 100)

\* The node lies beyond 1.02 projR^2, or the inverse projection has no
\* direction for it
NoDensity(i, j, c) ==
    Beyond(i, j, c) \/ inverseFn(c.projection, NodeX(i, c), NodeY(j, c)) = null

\* The cell whose top left node is column i of row j has a corner without density
HasUndefinedCorner(i, j, grid, c) ==
    \E di \in 0..1 : \E dj \in 0..1 : isNaN(grid[(j + dj) * c.gridSize + i + di + 1])

\* The point p lies on the boundary of a cell all of whose corners have a density
OnDefinedCell(p, grid, c) ==
    \E i \in 0..(c.gridSize - 2) : \E j \in 0..(c.gridSize - 2) :
        /\ ~HasUndefinedCorner(i, j, grid, c)
        /\ p[1] >= NodeX(i, c) /\ p[1] <= NodeX(i + 1, c)
        /\ p[2] <= NodeY(j, c) /\ p[2] >= NodeY(j + 1, c)
        /\ p[1] \in { NodeX(i, c), NodeX(i + 1, c) } \/ p[2] \in { NodeY(j, c), NodeY(j + 1, c) }

\* The three parts of C21 for the grid and the quantities given
UndefinedSkipped(grid, c) ==
    /\ \A i \in 0..(c.gridSize - 1) : \A j \in 0..(c.gridSize - 1) :
          NoDensity(i, j, c) =>
              /\ isNaN(grid[j * c.gridSize + i + 1])
              /\ grid[j * c.gridSize + i + 1] # 0
    /\ \A i \in 0..(c.gridSize - 2) : \A j \in 0..(c.gridSize - 2) :
          HasUndefinedCorner(i, j, grid, c) =>
              \A k \in 1..Len(input.levels) :
                  cellSegments(grid, c.gridSize, c.step, c.projR, input.levels[k], i, j) = << >>
    /\ \A k \in DOMAIN output.val :
          \A q \in DOMAIN output.val[k].paths :
              \A r \in DOMAIN output.val[k].paths[q] :
                  OnDefinedCell(output.val[k].paths[q][r], grid, c)

\* C21: every grid node beyond 1.02 projR^2, or without an inverse projection,
\* holds NaN and never 0; marching squares emits no segment from a cell with
\* such a corner; so every returned point lies on a cell whose four corners
\* all have a density.
C21_UndefinedNodesSkipped ==
    (Contoured /\ Len(input.dcos) > 0) => UndefinedSkipped(CallGrid, CallContext)

\* Some node inside 1.02 projR^2 has no inverse projection, and the node
\* below it has a density
InnerGap(grid, c) ==
    \E i \in 0..(c.gridSize - 1) : \E j \in 0..(c.gridSize - 2) :
        /\ ~Beyond(i, j, c)
        /\ isNaN(grid[j * c.gridSize + i + 1])
        /\ ~isNaN(grid[(j + 1) * c.gridSize + i + 1])

\* A grid with such a node, and a contour drawn at the first level
C21_Witness ==
    /\ Contoured
    /\ Len(input.dcos) > 0
    /\ Len(input.levels) > 0
    /\ Len(output.val[1].paths) > 0
    /\ InnerGap(CallGrid, CallContext)

-----------------------------------------------------------------------------
(* Properties of assembleSegments, checked under SpecAssemble *)

\* The pairs of consecutive points of the paths returned, as <<path, place>>
Links == { << q, r >> : q \in 1..Len(output.val), r \in 1..MaxSegs + 1 }

PathLinks == { l \in Links : l[2] < Len(output.val[l[1]]) }

\* The link l has the two ends of the segment seg, one way or the other
LinkOf(l, seg) ==
    \/ /\ output.val[l[1]][l[2]] = seg[1]
       /\ output.val[l[1]][l[2] + 1] = seg[2]
    \/ /\ output.val[l[1]][l[2]] = seg[2]
       /\ output.val[l[1]][l[2] + 1] = seg[1]

\* C22: assembleSegments consumes every segment exactly once: the links of the
\* paths are as many as the segments, every link has the two endpoints of a
\* segment, and each segment (counted with its repetitions) has as many links
\* as there are segments with its endpoints; the function computed pass by
\* pass is the one computeContours calls.
C22_EverySegmentOnce ==
    Returned("assembleSegments") =>
        /\ Cardinality(PathLinks) = Len(input)
        /\ output.used = 1..Len(input)
        /\ \A l \in PathLinks : \E i \in 1..Len(input) : LinkOf(l, input[i])
        /\ \A i \in 1..Len(input) :
              Cardinality({ l \in PathLinks : LinkOf(l, input[i]) })
                  = Cardinality({ k \in 1..Len(input) :
                                      \/ input[k] = input[i]
                                      \/ input[k] = << input[i][2], input[i][1] >> })
        /\ output.val = assembleSegments(input)

\* Three segments, two of them the same, assembled into more than one path
C22_Witness ==
    /\ Returned("assembleSegments")
    /\ Len(input) = 3
    /\ input[1] = input[3]
    /\ input[1][1] # input[1][2]
    /\ Len(output.val) > 1
    /\ Len(output.val[1]) > 2

\* The first and the last point of the q-th path returned
Ends(q) == { output.val[q][1], output.val[q][Len(output.val[q])] }

\* The ends of segments that lie at the point p
EndsAt(p) == { << i, e >> \in (1..Len(input)) \X (1..2) : input[i][e] = p }

RECURSIVE ReachedIn(_, _)
\* The points reached from those of S along at most n segments
ReachedIn(S, n) ==
    IF n = 0 THEN S
    ELSE ReachedIn(S \cup { input[i][e] : << i, e >> \in
                              { x \in (1..Len(input)) \X (1..2) : input[x[1]][3 - x[2]] \in S } },
                   n - 1)

\* The segments form one simple closed loop: none has length zero, two ends
\* meet at every point, and every point is reached from the first
SimpleLoop ==
    /\ Len(input) >= 2
    /\ \A i \in 1..Len(input) :
          /\ input[i][1] # input[i][2]
          /\ Cardinality(EndsAt(input[i][1])) = 2
          /\ Cardinality(EndsAt(input[i][2])) = 2
          /\ input[i][1] \in ReachedIn({ input[1][1] }, Len(input))

\* C28: in the output of assembleSegments no two distinct paths can still be
\* joined: no first or last point of one path is close to a first or last
\* point of another; segments that form one simple closed loop become a single
\* path whose first and last points coincide.
C28_PathsMaximal ==
    Returned("assembleSegments") =>
        /\ \A q \in 1..Len(output.val) : \A r \in 1..Len(output.val) :
              q # r => \A a \in Ends(q) : \A b \in Ends(r) : ~close(a, b)
        /\ SimpleLoop =>
              /\ Len(output.val) = 1
              /\ Len(output.val[1]) = Len(input) + 1
              /\ close(output.val[1][1], output.val[1][Len(input) + 1])

\* A triangle given out of order comes back as one closed path
C28_Witness ==
    /\ Returned("assembleSegments")
    /\ SimpleLoop
    /\ Len(input) = 3
    /\ input[1][2] # input[2][1]
    /\ input[1][2] # input[2][2]
    /\ Len(output.val) = 1
    /\ output.val[1][1] = output.val[1][4]

\* C29: assembleSegments terminates for every finite list of segments, closed
\* loops, junctions, repeated and zero-length segments among them: every pass
\* of an extension loop after which the loop continues has marked one more
\* segment as used.
C29_Terminates ==
    /\ <>(pc = "done")
    /\ [][(pc \in { "forward", "backward" } /\ pc' = pc) =>
              /\ output.used \subseteq output'.used
              /\ Cardinality(output'.used) = Cardinality(output.used) + 1]_vars

\* The function has returned for a list with a repeated segment, a segment of
\* length zero and three segments meeting at a point
C29_Witness ==
    /\ Returned("assembleSegments")
    /\ Len(input) = 3
    /\ input[1] = input[2]
    /\ input[3][1] = input[3][2]
    /\ Cardinality(EndsAt(input[3][1])) >= 4

-----------------------------------------------------------------------------
(* C23: the concentration parameter and the confidence cone of fisherStats *)

\* n - R of a result of fisherStats, in thousandths
Deficit(f) == f.n * ONE - f.R

\* the cosine of line 69, clamped to [-1, 1]
ClampedCos(f) ==
    LET cosA == ONE - Mul(Div(Deficit(f), f.R), Pow20(f.n - 1) - ONE)
    IN  IF cosA < -ONE THEN -ONE ELSE IF cosA > ONE THEN ONE ELSE cosA

ConeApplies(f) == f.n >= 2 /\ f.R > 0 /\ Deficit(f) > 0

\* C23: when n - R > 1e-10 kappa is (n-2)/(n-R) for n >= 3 and (n-1)/(n-R)
\* for n < 3; alpha95 is 0 unless n >= 2, R > 1e-10 and n - R > 1e-10, and is
\* then the arccosine in degrees of 1 - ((n-R)/R)*(20^(1/(n-1)) - 1) clamped
\* to [-1, 1]
C23_KappaAndAlpha95 ==
    Returned("fisherStats") =>
        LET f == output.val
        IN  /\ f.n = Len(input)
            /\ f.R = length(resultant(input))
            /\ (Deficit(f) > 0 /\ f.n >= 3) => f.kappa = Div((f.n - 2) * ONE, Deficit(f))
            /\ (Deficit(f) > 0 /\ f.n < 3) => f.kappa = Div((f.n - 1) * ONE, Deficit(f))
            /\ ConeApplies(f) => f.alpha95 = Degrees(Acos(ClampedCos(f)))
            /\ ~ConeApplies(f) => f.alpha95 = 0

\* Three directions spread enough for a cone strictly between 0 and 180 degrees
C23_Witness ==
    /\ Returned("fisherStats")
    /\ output.val.n = 3
    /\ Deficit(output.val) > 0
    /\ output.val.kappa = Div(ONE, Deficit(output.val))
    /\ output.val.alpha95 > 0
    /\ output.val.alpha95 < 180 * ONE

-----------------------------------------------------------------------------
(* C24: the Woodcock parameters follow the division of doubles *)

\* K and C are the quotients of lines 138-139 on the eigenvalues returned
Quotients(a) ==
    LET s1 == a.eigenvalues[1]
        s2 == a.eigenvalues[2]
        s3 == a.eigenvalues[3]
    IN  /\ a.K = FDiv(Log(FDiv(s1, s2)), Log(FDiv(s2, s3)))
        /\ a.C = Log(FDiv(s1, s3))

\* S1 = S2 > S3 gives K = 0 and S1 = S2 = S3 gives K = NaN
ZeroNumerator(a) ==
    LET s1 == a.eigenvalues[1]
        s2 == a.eigenvalues[2]
        s3 == a.eigenvalues[3]
    IN  /\ (s1 = s2 /\ s2 > s3 /\ s3 >= 0) => a.K = 0
        /\ (s1 = s2 /\ s2 = s3) => a.K = NaN

\* C24 as stated: K = ln(S1/S2)/ln(S2/S3) and C = ln(S1/S3) by the division
\* of doubles; S1 = S2 > S3 gives K = 0, S1 > S2 = S3 gives K = +Infinity and
\* S1 = S2 = S3 gives K = NaN
C24_AsStated ==
    Returned("principalAxes") =>
        LET a == output.val
        IN  /\ Quotients(a)
            /\ ZeroNumerator(a)
            /\ (a.eigenvalues[1] > a.eigenvalues[2] /\ a.eigenvalues[2] = a.eigenvalues[3])
                   => a.K = Infinity

\* C24, amended: K = ln(S1/S2)/ln(S2/S3) and C = ln(S1/S3) by the division of
\* doubles with no branch; for eigenvalues S1 >= S2 >= S3 >= 0, S1 = S2 > S3
\* gives K = 0, S1 > S2 = S3 > 0 gives K = +Infinity, S1 = S2 = S3 gives
\* K = NaN, and S1 > S2 = S3 = 0 gives K = NaN because S2/S3 is itself 0/0
C24_WoodcockQuotients ==
    Returned("principalAxes") =>
        LET a == output.val
            s1 == a.eigenvalues[1]
            s2 == a.eigenvalues[2]
            s3 == a.eigenvalues[3]
        IN  /\ a.eigenvalues = symmetricEigen3(orientationTensor(input)).values
            /\ Quotients(a)
            /\ ZeroNumerator(a)
            /\ (s1 > s2 /\ s2 = s3 /\ s3 > 0) => a.K = Infinity
            /\ (s1 > s2 /\ s2 = s3 /\ s3 = 0) => a.K = NaN

\* A fabric with S1 > S2 = S3 > 0, whose K is +Infinity
C24_Witness ==
    /\ Returned("principalAxes")
    /\ output.val.eigenvalues[1] > output.val.eigenvalues[2]
    /\ output.val.eigenvalues[2] = output.val.eigenvalues[3]
    /\ output.val.eigenvalues[3] > 0
    /\ output.val.K = Infinity

-----------------------------------------------------------------------------
(* C27: every point used lies on an edge the level crosses *)

\* The position of the corners TL, TR, BL, BR of the cell
CornerAt(k) ==
    << IF k \in {1, 3} THEN -ONE ELSE ONE, IF k \in {1, 2} THEN ONE ELSE -ONE >>

\* The corner an edge is interpolated from, and the one it is interpolated to
FromCorner(e) == CHOOSE k \in e : \A m \in e : k <= m
ToCorner(e) == CHOOSE k \in e : \A m \in e : k >= m

\* p is the point of line 122 on the edge e: the difference divided by is not
\* zero, the fraction lies in 0..1 and p lies between the corners of e
Interpolated(p, e) ==
    LET va == input.grid[FromCorner(e)]
        vb == input.grid[ToCorner(e)]
        ca == CornerAt(FromCorner(e))
        cb == CornerAt(ToCorner(e))
    IN  /\ vb - va # 0
        /\ Div(input.level - va, vb - va) >= 0
        /\ Div(input.level - va, vb - va) <= ONE
        /\ p = [ i \in 1..2 |-> ca[i] + Mul(Div(input.level - va, vb - va), cb[i] - ca[i]) ]
        /\ OnEdge(p, e)

\* C27: every endpoint of an emitted segment is interpolated on an edge of
\* the cell with exactly one corner at or above the level, so the difference
\* divided by is not zero and the point lies between the two corners of
\* that edge, inside the cell
C27_PointsOnCrossedEdges ==
    CellDone =>
        \A k \in 1..Len(output.val) : \A m \in 1..2 :
            \E e \in Crossed : Interpolated(output.val[k][m], e)

\* A saddle whose two segments have their four ends strictly inside the four
\* edges
C27_Witness ==
    /\ CellDone
    /\ Code = 10
    /\ Len(output.val) = 2
    /\ \A k \in 1..2 : \A m \in 1..2 :
          /\ \E e \in Crossed : Interpolated(output.val[k][m], e)
          /\ \A c \in 1..4 : output.val[k][m] # CornerAt(c)

-----------------------------------------------------------------------------
(* C25: rotationFromCenter brings the direction given to the centre *)

\* The direction of the call, and its cross product with [0, 0, -1]
CenterDir == lineToDcos(input[1], input[2])
CenterAxis == cross(CenterDir, << 0, 0, -MICRO >>)

\* Two vectors agree in every component to within two ten-thousandths, the
\* resolution of a unit vector along an axis of a few hundredths that is
\* known to a millionth
Agree(u, v) == \A i \in 1..3 : Abs(u[i] - v[i]) <= 200

\* The half turn about [1, 0, 0]
HalfTurnX == << MICRO, 0, 0, 0, -MICRO, 0, 0, 0, -MICRO >>

\* m turns about the unit vector along axis: it leaves that vector in place
TurnsAbout(m, axis) ==
    LET k == normalizeBy(axis, lengthMicro(axis))
    IN  /\ Abs(lengthMicro(k) - MICRO) <= 200
        /\ Agree(transformed(m, k), k)

\* C25: rotationFromCenter(trend, plunge) returns a matrix that maps the
\* direction (trend, plunge) to [0, 0, -1]; when the cross product of that
\* direction with [0, 0, -1] is shorter than 1e-10 it is the identity if the
\* direction points down (rotationFromCenter(0, 90) is the identity) and the
\* half turn about [1, 0, 0] if it points up, and otherwise it is a turn
\* about the unit vector along that cross product, never one built from an
\* axis of length zero
C25_CenterRotation ==
    Returned("rotationFromCenter") =>
        /\ Agree(transformed(output.val, CenterDir), << 0, 0, -MICRO >>)
        /\ (lengthMicro(CenterAxis) = 0 /\ CenterDir[3] < 0) => output.val = identity
        /\ (lengthMicro(CenterAxis) = 0 /\ CenterDir[3] > 0) => output.val = HalfTurnX
        /\ lengthMicro(CenterAxis) > 0 => TurnsAbout(output.val, CenterAxis)
        /\ input = << 0, 90 >> => output.val = identity

\* The direction straight up, brought down by the half turn about [1, 0, 0]
C25_Witness ==
    /\ Returned("rotationFromCenter")
    /\ input[2] = -90
    /\ lengthMicro(CenterAxis) = 0
    /\ output.val = HalfTurnX
    /\ transformed(output.val, CenterDir) = << 0, 0, -MICRO >>

-----------------------------------------------------------------------------
(* C30: the data group holds the elements of the items listed, checked      *)
(* under SpecDom                                                            *)

\* The elements held by the items of the list
HeldByItems ==
    { nets[1].els[nets[1].items[k].id] : k \in 1..Len(nets[1].items) } \ { null }

\* The children of the data group, once the DOM is built
DataChildren == nets[1].dataGroup[1]

\* The children of the data group are the elements held by the items of the
\* list, each once, and no object has had a second element made
ChildrenAreItems ==
    nets[1].el # null =>
        /\ { DataChildren[i] : i \in 1..Len(DataChildren) } = HeldByItems
        /\ \A i \in 1..Len(DataChildren) : \A j \in 1..Len(DataChildren) :
               i # j => DataChildren[i] # DataChildren[j]
        /\ \A id \in DOMAIN nets[1].els :
               nets[1].els[id] # null => nets[1].els[id][3] = 1

\* A render once the DOM is built leaves every item of the list with an
\* element, and an object that held an element holds the same one after any
\* call
MadeOnceAndKept ==
    /\ (Render /\ nets[1].el # null) =>
           \A k \in 1..Len(nets'[1].items) : nets'[1].els[nets'[1].items[k].id] # null
    /\ \A id \in DOMAIN nets[1].els :
           nets[1].els[id] # null => nets'[1].els[id] = nets[1].els[id]

\* C30: once element() has built the DOM, after any sequence of pole, line,
\* plane, cone, remove, clear and render calls the children of the data group
\* are exactly the elements held by the items of the list: an item's element
\* is made by the first render that sees it and kept by later ones, never
\* made twice, and no element of an item removed or cleared stays attached;
\* render() before element() changes nothing and returns the instance
C30_DataGroupIsItems ==
    /\ []ChildrenAreItems
    /\ [][MadeOnceAndKept]_vars
    /\ [][(Render /\ nets[1].el = null) => (nets' = nets /\ output'.val = "this")]_vars

\* Two items are drawn, and a third that was drawn has been removed: its
\* element is held by the object and is no child of the data group
C30_Witness ==
    /\ nets[1].el # null
    /\ Len(nets[1].items) = 2
    /\ Len(DataChildren) = 2
    /\ \E id \in DOMAIN nets[1].els :
          /\ nets[1].els[id] # null
          /\ \A k \in 1..Len(nets[1].items) : nets[1].items[k].id # id
          /\ \A i \in 1..Len(DataChildren) : DataChildren[i] # nets[1].els[id]


(* C26 *)

\* The methods the contour cache is claimed to survive
KeepsCache ==
    { "setRotation", "setCenter", "setNorthPole", "pole", "line", "plane", "cone",
      "remove", "clear", "svg", "render" }

\* The polylines svg() would draw for the contours of an instance
Drawn(net) == svg(net).contours

\* A call of one of those methods leaves the contour data, the contour
\* options and the cached paths as they were, and so what svg() draws of them
CacheKept ==
    output'.fn \in KeepsCache =>
        /\ nets'[1].contourPaths = nets[1].contourPaths
        /\ nets'[1].contourDcos = nets[1].contourDcos
        /\ nets'[1].contourOptions = nets[1].contourOptions
        /\ Drawn(nets'[1]) = Drawn(nets[1])

\* Right after contour() or updateContours() the cache is what
\* computeContours gives for the rotation of that moment
CacheFresh ==
    output.fn \in { "contour", "updateContours" } =>
        nets[1].contourPaths = computeContoursOf(nets[1]).contourPaths

\* svg() draws the cached paths, whatever the rotation has become
SvgDrawsCache == output.fn = "svg" => output.val.contours = Drawn(nets[1])

\* Right after clearContours() nothing of the contours is left
CacheCleared ==
    output.fn = "clearContours" =>
        /\ nets[1].contourDcos = null
        /\ nets[1].contourOptions = null
        /\ nets[1].contourPaths = null
        /\ Drawn(nets[1]) = << >>
        /\ nets[1].contourGroup \in { null, << << >> >> }

\* C26: the cached contour paths change only through contour(),
\* updateContours() and clearContours(): setRotation, setCenter, setNorthPole,
\* pole, line, plane, cone, remove, clear, svg() and render() leave the cache
\* unchanged, so that svg() after a rotation change still draws the contours
\* computed for the old rotation until updateContours() recomputes them;
\* clearContours() leaves no contour data and no contour paths
C26_CacheChangesOnlyByContourCalls ==
    /\ [][CacheKept]_vars
    /\ [](CacheFresh /\ SvgDrawsCache /\ CacheCleared)

\* svg() has just drawn contours that are not the ones updateContours() would
\* compute for the present rotation: the cache is that of an older rotation
C26_Witness ==
    /\ output.fn = "svg"
    /\ output.val.contours # << >>
    /\ Drawn(updateContours(nets[1])) # << >>
    /\ output.val.contours # Drawn(updateContours(nets[1]))

=============================================================================
